---- MODULE Spec2Model ----
(***************************************************************************)
(* Model of the Polity ingestion-and-scoring pipeline:                     *)
(*   - legislator sync        (services/sync.ts)                           *)
(*   - bill ingestion         (services/politicians.ts, votingRecords.ts)  *)
(*   - vote sync              (services/politicians.ts)                    *)
(*   - scoring                (services/politicalScoring.ts, SQL function) *)
(* The relational store is modelled table by table.  Scores are kept in    *)
(* exact arithmetic: a bill's polarity is counted in tenths (10 = 1.0).    *)
(***************************************************************************)
EXTENDS Integers, Sequences, FiniteSets, TLC

VARIABLES
    politicians,     \* api.politicians rows
    mPc,             \* position of syncPoliticians / syncMembersFromChamber
    mChamber,        \* chamber argument of the running syncMembersFromChamber
    mPage,           \* pages already fetched for this chamber (offset / limit)
    mHasMore,        \* hasMore
    mPageLeft,       \* records of the current page not yet iterated
    syncedCount,     \* syncedCount of the running syncMembersFromChamber
    errorCount,      \* errorCount of the running syncMembersFromChamber
    totalSynced,     \* totalSynced of syncPoliticians
    mErrors,         \* errors[] of syncPoliticians
    mRuns,           \* number of syncPoliticians calls started
    mResult,         \* value returned by the last syncPoliticians call
    mLog,            \* last line logged by the member loop: [kind, id], and the
                     \* terms.item[0].chamber of the record it is about
    pBill,           \* the bill last handed to the two polarity scorers
    pScore,          \* calculateBillProgressiveScore(pBill), in tenths
    pScoreVR,        \* calculateProgressiveScore(pBill), in tenths
    pCalls,          \* calls of the scorers so far
    bills,           \* api.bills rows
    bill_topics,     \* api.bill_topics rows: <<bill id, topic id>>
    bPc,             \* running bill ingestor: "idle", "syncBills", "syncVotingRecords"
    bLeft,           \* records of the bill listing not yet iterated
    billsSynced,     \* billsSynced of syncBills
    totalBills,      \* totalBills of syncVotingRecords
    totalRecords,    \* totalRecords of syncVotingRecords
    bErrors,         \* errors[] of the running bill ingestor
    bRuns,           \* bill ingestor calls started
    bResult,         \* value returned by the last bill ingestor call
    bLast,           \* the bill last handed to an ingestor: [path, congress_id, step]
                     \* and the calls its loop iteration made up to the bill
                     \* write, in order: "detail" (fetch), "polarity", "topics",
                     \* "select" (existence check), "update", "insert"
    congressional_votes, \* api.congressional_votes rows
    voting_records,  \* api.voting_records rows
    vPc,             \* syncVotes: "idle", "votes" (vote loop), "members" (member loop)
    vChamber,        \* chamber argument of the running syncVotes
    vLeft,           \* votes of the listing not yet iterated
    vMembersLeft,    \* member votes of the current vote not yet iterated
    vCur,            \* billId, congressionalVoteId and date of the current vote,
                     \* and how its congressional_votes row was written
    votesSynced,     \* votesSynced of syncVotes
    recordsSynced,   \* recordsSynced of syncVotes
    vErrors,         \* errors[] of syncVotes
    vRuns,           \* syncVotes calls started
    vResult,         \* value returned by the last syncVotes call
    vLast,           \* the member vote last iterated and what became of it
    political_scores, \* api.political_scores rows
    aggregate_scores, \* api.aggregate_scores rows
    sPipeline,       \* how the store was filled: "routes" (syncBill: topic_ids) or
                     \* "real" (syncBills: bill_topics)
    sPc,             \* scoring: "idle", "calculatePoliticalScores",
                     \* "calculateRealPoliticalScores"
    sPol,            \* index of the politician the scoring loop is at
    sTopic,          \* index of the topic the scoring loop is at
    calculatedScores, \* calculatedScores of calculatePoliticalScores
    politiciansScored, \* politiciansScored of calculateRealPoliticalScores
    sErrors,         \* errors[] of the running scoring call
    sRuns,           \* scoring calls started
    sResult,         \* value returned by the last scoring call
    sLast,           \* the (politician, topic) pair last scored and what became of it
    rRoute,          \* the POST route being served ("" before a request arrives)
    rPc,             \* the stage the handler awaits: "idle", a stage name, "done"
    calculateScores, \* options.calculateScores of fullSync
    rErrors,         \* errors[] of fullSync / results.errors of POST /full-sync
    rStages,         \* the stages that have returned, in order: [stage, result]
    summary,         \* summary of fullSync
    rResponse,       \* the HTTP response sent: [status, success, counts, errors]
    cEngine,         \* the scorer computing a confidence: "calculateTopicScore" or
                     \* "calculate_politician_score"
    cVotes,          \* the votes it counted for the pair
    cConfidence,     \* the confidence it returned, as 400 * confidence^2
    ePoliticians,    \* api.politicians as EnhancedCongressService writes it:
                     \* [congress_id, chamber, current_congress, is_current]
    ePc,             \* syncAllCurrentMembers: "idle", "fetch", "members"
    eChamber,        \* chamber of the running syncChamberMembers call
    eCongress,       \* congress argument of syncAllCurrentMembers
    eApiUp,          \* whether api.congress.gov answers during this call
    eOffset,         \* offset of syncChamberMembers
    eRaw,            \* records in the page the upstream returned last
    eFetched,        \* members.length: the records of that page left by the
                     \* chamber filter of getCurrentMembers
    eHasMore,        \* pagination.hasMore of that page
    eLeft,           \* records of that page not yet processed
    eCount,          \* count of syncChamberMembers
    houseMembers,    \* houseMembers of syncAllCurrentMembers
    eErrors,         \* errors[] of syncAllCurrentMembers
    eRuns,           \* syncAllCurrentMembers calls started
    eResult,         \* value returned by the last syncAllCurrentMembers call
    pace,            \* the last thing a sync stage did with the external API:
                     \* "none", "request" or "delay"
    unpaced,         \* TRUE once two requests followed each other with no delay
    iPc,             \* per concurrent syncVotes instance, where it is in the body
                     \* of one vote: "idle", "vote selected", "select record",
                     \* "record selected", "done", "failed"
    iVote,           \* per instance, voteData of the vote it is syncing
    iRecord,         \* per instance, the voting record it is about to insert
    iFound           \* per instance, whether its last existence check found a row

memberVars == <<politicians, mPc, mChamber, mPage, mHasMore, mPageLeft,
                syncedCount, errorCount, totalSynced, mErrors, mRuns, mResult, mLog>>

polarityVars == <<pBill, pScore, pScoreVR, pCalls>>

billVars == <<bills, bill_topics, bPc, bLeft, billsSynced, totalBills, totalRecords,
              bErrors, bRuns, bResult, bLast>>

voteVars == <<congressional_votes, voting_records, vPc, vChamber, vLeft, vMembersLeft,
              vCur, votesSynced, recordsSynced, vErrors, vRuns, vResult, vLast>>

scoreVars == <<political_scores, aggregate_scores, sPipeline, sPc, sPol, sTopic,
               calculatedScores, politiciansScored, sErrors, sRuns, sResult, sLast>>

routeVars == <<rRoute, rPc, calculateScores, rErrors, rStages, summary, rResponse>>

confidenceVars == <<cEngine, cVotes, cConfidence>>

enhancedVars == <<ePoliticians, ePc, eChamber, eCongress, eApiUp, eOffset, eRaw,
                  eFetched, eHasMore, eLeft, eCount, houseMembers, eErrors, eRuns,
                  eResult>>

paceVars == <<pace, unpaced>>

raceVars == <<iPc, iVote, iRecord, iFound>>

vars == <<memberVars, polarityVars, billVars, voteVars, scoreVars, routeVars,
          confidenceVars, enhancedVars, paceVars, raceVars>>

(***************************************************************************)
(* Bounds of the model.                                                    *)
(***************************************************************************)
\* votes counted for one (politician, topic) pair
MaxVoteCount == 120
\* page size requested from /member (the code asks for 100; scaled down)
PageLimit == 2
\* pages the upstream serves per chamber before it must return a short page
MaxPages == 2
\* syncPoliticians calls per behaviour
MaxRuns == 2
\* entries of a bill's subjects array
MaxSubjects == 2
\* calls of the polarity scorers on one bill
MaxCalls == 2
\* records in one bill listing
MaxBills == 1
\* votes in one vote listing
MaxVotes == 1
\* member votes in one vote detail
MaxMemberVotes == 2
\* voting records of the scored legislator in the store
MaxRecords == 2
\* scoring calls
MaxScoreRuns == 1

NoResult == [success |-> FALSE, totalSynced |-> 0 - 1, errors |-> <<>>]

(***************************************************************************)
(* Upstream member records (CongressMember).  term is terms.item[0].chamber *)
(* or "none" when the record has no term; complete is FALSE when the name   *)
(* or the state is missing.                                                 *)
(***************************************************************************)
BioguideIds == {"A001", "A002"}
TermChambers == {"Senate", "House of Representatives", "Unknown", "none"}
MemberPool == [bioguideId : BioguideIds, term : TermChambers, complete : BOOLEAN]

(***************************************************************************)
(* api.politicians: rows [congress_id, chamber, n]; n numbers the rows     *)
(* that share one congress_id (1 for the first).                           *)
(***************************************************************************)
PoliticianRows(cid) == {r \in politicians : r.congress_id = cid}

\* the insert into a table without the unique constraint
InsertPoliticianNoConstraint(row) ==
    [error |-> "none",
     rows  |-> politicians \cup
               {[congress_id |-> row.congress_id, chamber |-> row.chamber,
                 n |-> Cardinality(PoliticianRows(row.congress_id)) + 1]}]

\* insert into api.politicians under UNIQUE (congress_id): error 23505 on a
\* duplicate key, the row added otherwise
InsertPolitician(row) ==
    IF PoliticianRows(row.congress_id) # {}
    THEN [error |-> "23505", rows |-> politicians]
    ELSE [error |-> "none",
          rows  |-> politicians \cup
                    {[congress_id |-> row.congress_id, chamber |-> row.chamber, n |-> 1]}]

(***************************************************************************)
(* Bill texts.  A text is one of the phrases below; Occurring(s) lists the *)
(* keywords of the scorers and of the topic mappings that are substrings   *)
(* of the lower-case phrase s (what String.includes answers for it).       *)
(***************************************************************************)
TitlePostOffice == "A bill to rename a post office"
TitleClimate == "Clean Energy and Climate Action Act"
TitleBorder == "Border Security and Tax Cuts Act"
TitleHealthcare == "Universal Healthcare and Medicare for All Act"
SummaryProgressive == "expands medicaid and affordable care, abortion access and reproductive rights, raises the minimum wage, funds childcare and paid leave, protects voting rights and civil rights, enacts gun control and immigration reform, adds affordable housing and student debt relief"
SummaryConservative == "raises defense spending and the military budget, funds deportation and immigration enforcement, extends deregulation, tax reduction and oil drilling, promotes coal mining, school choice and voucher programs, protects religious freedom, the second amendment and traditional marriage"
SummaryReport == "directs the agency to submit a report"
SummaryHealth == "funds healthcare, medicare and medicaid, climate and environment programs, renewable power, justice and equality"
SummaryHospital == "funds a military hospital, a tax cut, deregulation, school choice, voucher programs and border security"
PolicyEnvironment == "Environmental Protection"
PolicyArmedForces == "Armed Forces and National Security"
SubjectSocialSecurity == "Social Security"
SubjectSmallBusiness == "Small business"
SubjectOversight == "Congressional oversight"

\* String.prototype.toLowerCase on the phrases
ToLowerCase(s) ==
    CASE s = TitlePostOffice -> "a bill to rename a post office"
      [] s = TitleClimate -> "clean energy and climate action act"
      [] s = TitleBorder -> "border security and tax cuts act"
      [] s = TitleHealthcare -> "universal healthcare and medicare for all act"
      [] s = PolicyEnvironment -> "environmental protection"
      [] s = PolicyArmedForces -> "armed forces and national security"
      [] s = SubjectSocialSecurity -> "social security"
      [] s = SubjectSmallBusiness -> "small business"
      [] s = SubjectOversight -> "congressional oversight"
      [] OTHER -> s

\* the keywords k with s.includes(k), for a lower-case s
Occurring(s) ==
    CASE s = "clean energy and climate action act"
        -> {"clean energy", "climate", "climate action", "energy"}
      [] s = "border security and tax cuts act"
        -> {"border security", "security", "tax", "tax cut", "tax cuts"}
      [] s = "universal healthcare and medicare for all act"
        -> {"care", "health", "healthcare", "medicare", "medicare for all",
            "universal healthcare"}
      [] s = SummaryProgressive
        -> {"abortion", "abortion access", "affordable care",
            "affordable housing", "care", "childcare", "civil rights",
            "gun control", "immigration reform", "medicaid", "minimum wage",
            "paid leave", "reproductive", "reproductive rights", "rights",
            "student debt", "voting", "voting rights"}
      [] s = SummaryConservative
        -> {"budget", "coal", "coal mining", "defense", "defense spending",
            "deportation", "deregulation", "freedom",
            "immigration enforcement", "military", "military budget", "oil",
            "oil drilling", "religious freedom", "school choice",
            "second amendment", "tax", "tax reduction",
            "traditional marriage", "voucher"}
      [] s = SummaryHealth
        -> {"care", "climate", "environment", "equality", "health",
            "healthcare", "justice", "medicaid", "medicare", "renewable"}
      [] s = SummaryHospital
        -> {"border security", "deregulation", "hospital", "military",
            "school choice", "security", "tax", "tax cut", "voucher"}
      [] s = "environmental protection"
        -> {"environment"}
      [] s = "armed forces and national security"
        -> {"armed forces", "security"}
      [] s = "social security"
        -> {"security", "social security"}
      [] s = "small business"
        -> {"small business"}
      [] OTHER -> {}

\* calculateBillProgressiveScore: progressive keywords (positive score)
progressiveKeywords ==
    <<"climate", "environment", "renewable", "clean energy", "healthcare",
      "medicare", "medicaid", "affordable care", "reproductive", "abortion",
      "contraception", "civil rights", "voting rights", "lgbtq", "equality",
      "justice", "minimum wage", "affordable housing", "student loan",
      "education funding", "childcare", "paid leave", "union",
      "worker protection", "gun control", "gun safety", "immigration reform",
      "pathway to citizenship", "social security", "veterans benefits">>

\* calculateBillProgressiveScore: conservative keywords (negative score)
conservativeKeywords ==
    <<"defense spending", "military", "border security",
      "immigration enforcement", "tax reduction", "tax cut", "deregulation",
      "small business", "second amendment", "religious freedom",
      "school choice", "voucher", "energy independence", "oil", "gas",
      "coal", "traditional values", "parental rights">>

\* calculateProgressiveScore: progressive indicators (negative score)
vrProgressiveKeywords ==
    <<"universal healthcare", "medicare for all", "climate action",
      "clean energy", "reproductive rights", "abortion access",
      "voting rights", "civil rights", "minimum wage", "tax on wealthy",
      "corporate tax", "student debt", "affordable housing", "gun control",
      "immigration reform">>

\* calculateProgressiveScore: conservative indicators (positive score)
vrConservativeKeywords ==
    <<"defense spending", "military budget", "border security",
      "deportation", "tax cuts", "deregulation", "oil drilling",
      "coal mining", "religious freedom", "second amendment",
      "traditional marriage">>

\* associateBillWithTopics: topicMappings
topicMappings ==
    <<
      \* Healthcare
      [topicId  |-> "01234567-89ab-cdef-0123-456789abcdef",
       keywords |-> <<"health", "healthcare", "medical", "medicare",
                      "medicaid", "insurance", "care", "hospital", "doctor",
                      "nurse", "medicine">>],
      \* Reproductive Rights
      [topicId  |-> "11234567-89ab-cdef-0123-456789abcdef",
       keywords |-> <<"reproductive", "abortion", "contraception",
                      "birth control", "family planning", "pregnancy",
                      "maternal">>],
      \* Defense & War
      [topicId  |-> "21234567-89ab-cdef-0123-456789abcdef",
       keywords |-> <<"defense", "military", "armed forces", "war",
                      "security", "veteran", "army", "navy", "air force",
                      "marines">>],
      \* Climate Action
      [topicId  |-> "31234567-89ab-cdef-0123-456789abcdef",
       keywords |-> <<"climate", "environment", "energy", "renewable",
                      "carbon", "emission", "pollution", "conservation",
                      "green", "sustainable">>],
      \* Progressive Taxation
      [topicId  |-> "41234567-89ab-cdef-0123-456789abcdef",
       keywords |-> <<"tax", "taxation", "revenue", "budget", "fiscal",
                      "economic", "finance", "wealth", "income", "corporate">>],
      \* Civil Rights
      [topicId  |-> "51234567-89ab-cdef-0123-456789abcdef",
       keywords |-> <<"civil rights", "equality", "discrimination", "voting",
                      "lgbtq", "rights", "justice", "freedom", "liberty",
                      "constitutional">>]
    >>

(***************************************************************************)
(* The two polarity scorers.  A bill carries title, summary (summary.text, *)
(* "" when absent), policyArea (policyArea.name, "" when absent) and       *)
(* subjects (an array of strings).                                         *)
(***************************************************************************)
Titles == {TitlePostOffice, TitleClimate, TitleBorder, TitleHealthcare}
Summaries == {"", SummaryProgressive, SummaryConservative, SummaryReport,
              SummaryHealth, SummaryHospital}
PolicyAreas == {"", PolicyEnvironment, PolicyArmedForces}
Subjects == {SubjectSocialSecurity, SubjectSmallBusiness, SubjectOversight}

SeqsUpTo(S, n) == UNION {[1..k -> S] : k \in 0..n}

BillTexts == [title : Titles, summary : Summaries, policyArea : PolicyAreas,
              subjects : SeqsUpTo(Subjects, MaxSubjects)]

Max(a, b) == IF a >= b THEN a ELSE b
Min(a, b) == IF a <= b THEN a ELSE b

\* content.includes(keyword), content being the parts joined by blanks
includes(content, keyword) ==
    \E i \in DOMAIN content : keyword \in Occurring(content[i])

\* a count of every part of the content a keyword occurs in, from i on
RECURSIVE forEachOccurrence(_, _, _)
forEachOccurrence(keywords, content, i) ==
    IF i > Len(keywords)
    THEN 0
    ELSE Cardinality({j \in DOMAIN content : keywords[i] \in Occurring(content[j])})
         + forEachOccurrence(keywords, content, i + 1)

\* keywords.forEach(keyword => { if (content.includes(keyword)) n++ }), from i on
RECURSIVE forEachMatch(_, _, _)
forEachMatch(keywords, content, i) ==
    IF i > Len(keywords)
    THEN 0
    ELSE (IF includes(content, keywords[i]) THEN 1 ELSE 0)
         + forEachMatch(keywords, content, i + 1)

\* `${title} ${summary} ${policyArea} ${subjects}` of politicians.ts, lower case
billContent(bill) ==
    <<ToLowerCase(bill.title), ToLowerCase(bill.summary), ToLowerCase(bill.policyArea)>>
    \o [i \in 1..Len(bill.subjects) |-> ToLowerCase(bill.subjects[i])]

\* `${bill.title} ${bill.summary?.text || ''}`.toLowerCase() of votingRecords.ts
billText(bill) ==
    <<ToLowerCase(bill.title), ToLowerCase(bill.summary)>>

\* the keyword sum of calculateBillProgressiveScore, not clamped
calculateBillProgressiveScoreUnclamped(bill) ==
    forEachMatch(progressiveKeywords, billContent(bill), 1)
    - forEachMatch(conservativeKeywords, billContent(bill), 1)

\* RealVotingDataService.calculateBillProgressiveScore, in tenths
calculateBillProgressiveScore(bill) ==
    LET content == billContent(bill)
        plus    == forEachMatch(progressiveKeywords, content, 1)
        minus   == forEachMatch(conservativeKeywords, content, 1)
        score   == plus - minus
        matches == plus + minus
    IN  IF matches = 0 THEN 0 ELSE Max(0 - 10, Min(10, score))

\* calculateProgressiveScore of votingRecords.ts, in tenths
calculateProgressiveScore(bill) ==
    LET text  == billText(bill)
        score == 2 * forEachMatch(vrConservativeKeywords, text, 1)
                 - 2 * forEachMatch(vrProgressiveKeywords, text, 1)
    IN  Max(0 - 10, Min(10, score))

Unscored == 0 - 99

\* the scorers' input: any upstream bill text; nothing scored yet
PolarityInit ==
    /\ pBill \in BillTexts
    /\ pScore = Unscored
    /\ pScoreVR = Unscored
    /\ pCalls = 0

\* both scorers applied to the bill (again, when it was scored before)
ScoreBill ==
    /\ pCalls < MaxCalls
    /\ pCalls' = pCalls + 1
    /\ pBill' = pBill
    /\ pScore' = calculateBillProgressiveScore(pBill)
    /\ pScoreVR' = calculateProgressiveScore(pBill)

\* the polarity variables outside the polarity specification
PolarityIdle ==
    /\ pBill = [title |-> "", summary |-> "", policyArea |-> "", subjects |-> <<>>]
    /\ pScore = Unscored
    /\ pScoreVR = Unscored
    /\ pCalls = 0

(***************************************************************************)
(* syncPoliticians / syncMembersFromChamber                                *)
(***************************************************************************)
actualChamber(member) ==
    IF member.term = "House of Representatives" THEN "house" ELSE "senate"

expectedChamber(chamber) ==
    IF chamber = "HOUSE" THEN "house" ELSE "senate"

\* syncPoliticians up to the first call of syncMembersFromChamber
StartSyncPoliticians ==
    /\ mPc = "idle"
    /\ mRuns < MaxRuns
    /\ mRuns' = mRuns + 1
    /\ mPc' = "fetch"
    /\ mChamber' = "SENATE"
    /\ mPage' = 0
    /\ mHasMore' = TRUE
    /\ mPageLeft' = 0
    /\ syncedCount' = 0
    /\ errorCount' = 0
    /\ totalSynced' = 0
    /\ mErrors' = <<>>
    /\ mResult' = NoResult
    /\ UNCHANGED <<politicians, mLog>>

\* syncMembersFromChamber has returned (threw = FALSE) or thrown: the caller
\* adds the count or records the failure, then syncs the House or returns
ChamberDone(threw) ==
    /\ totalSynced' = IF threw THEN totalSynced ELSE totalSynced + syncedCount
    /\ mErrors' = IF threw
                  THEN Append(mErrors, IF mChamber = "SENATE"
                                       THEN "Failed to sync Senate"
                                       ELSE "Failed to sync House")
                  ELSE mErrors
    /\ mPage' = 0
    /\ mHasMore' = TRUE
    /\ mPageLeft' = 0
    /\ syncedCount' = 0
    /\ errorCount' = 0
    /\ IF mChamber = "SENATE"
       THEN /\ mChamber' = "HOUSE"
            /\ mPc' = "fetch"
            /\ mResult' = mResult
       ELSE /\ mChamber' = mChamber
            /\ mPc' = "idle"
            /\ mResult' = [success     |-> (Len(mErrors') = 0 \/ totalSynced' > 0),
                           totalSynced |-> totalSynced',
                           errors      |-> mErrors']

\* a page of `length` records continues the loop: the flag with every record
\* ignored (the version that pages on while a page is not empty)
hasMoreUnlessEmpty(hasMore, length) ==
    IF length = 0 THEN FALSE ELSE hasMore

\* `if (data.members.length < limit) hasMore = false`
hasMoreAfter(hasMore, length) ==
    IF length < PageLimit THEN FALSE ELSE hasMore

\* one fetchFromCongressApi('/member', {offset}) of the paging loop
FetchMembersPage ==
    /\ mPc = "fetch"
    /\ UNCHANGED <<politicians, mRuns, mLog>>
    /\ \/ \* the request fails: the error leaves syncMembersFromChamber
          ChamberDone(TRUE)
       \/ \* data.members is missing or no array: break
          ChamberDone(FALSE)
       \/ \E n \in 0..PageLimit :
            /\ hasMoreAfter(mHasMore, n) => mPage + 1 < MaxPages
            /\ mPageLeft' = n
            /\ mHasMore' = hasMoreAfter(mHasMore, n)
            /\ mPc' = "members"
            /\ UNCHANGED <<mChamber, mPage, syncedCount, errorCount,
                           totalSynced, mErrors, mResult>>

\* one iteration of `for (const member of data.members)`
ProcessMember ==
    /\ mPc = "members"
    /\ mPageLeft > 0
    /\ mPageLeft' = mPageLeft - 1
    /\ UNCHANGED <<mPc, mChamber, mPage, mHasMore, totalSynced, mErrors, mRuns, mResult>>
    /\ \E member \in MemberPool, db \in {"ok", "error", "throw"} :
         IF member.term = "none"
         THEN /\ mLog' = [kind |-> "Skipping member without terms", id |-> member.bioguideId, term |-> member.term]
              /\ UNCHANGED <<politicians, syncedCount, errorCount>>
         ELSE IF actualChamber(member) # expectedChamber(mChamber)
         THEN /\ mLog' = [kind |-> "Skipping member in wrong chamber", id |-> member.bioguideId, term |-> member.term]
              /\ UNCHANGED <<politicians, syncedCount, errorCount>>
         ELSE IF ~member.complete
         THEN /\ mLog' = [kind |-> "Skipping member with incomplete data", id |-> member.bioguideId, term |-> member.term]
              /\ UNCHANGED <<politicians, syncedCount, errorCount>>
         ELSE LET res == InsertPolitician([congress_id |-> member.bioguideId,
                                           chamber |-> actualChamber(member)])
              IN  IF db = "ok"
                  THEN /\ politicians' = res.rows
                       /\ syncedCount' = IF res.error = "none"
                                         THEN syncedCount + 1 ELSE syncedCount
                       /\ errorCount' = errorCount
                       /\ mLog' = [kind |-> IF res.error = "none"
                                            THEN "Successfully synced"
                                            ELSE "Skipping duplicate",
                                   id |-> member.bioguideId, term |-> member.term]
                  ELSE \* the insert fails with another error, or throws
                       /\ errorCount' = errorCount + 1
                       /\ mLog' = [kind |-> IF db = "error"
                                            THEN "Error inserting politician"
                                            ELSE "Error processing member",
                                   id |-> member.bioguideId, term |-> member.term]
                       /\ UNCHANGED <<politicians, syncedCount>>

\* end of a page: offset += limit, then test hasMore
EndMembersPage ==
    /\ mPc = "members"
    /\ mPageLeft = 0
    /\ UNCHANGED <<politicians, mRuns, mLog>>
    /\ IF mHasMore
       THEN /\ mPage' = mPage + 1
            /\ mPc' = "fetch"
            /\ UNCHANGED <<mChamber, mHasMore, mPageLeft, syncedCount, errorCount,
                           totalSynced, mErrors, mResult>>
       ELSE ChamberDone(FALSE)

\* no syncPoliticians call has been made and the table is empty
MembersInit ==
    /\ politicians = {}
    /\ mPc = "idle"
    /\ mChamber = "SENATE"
    /\ mPage = 0
    /\ mHasMore = TRUE
    /\ mPageLeft = 0
    /\ syncedCount = 0
    /\ errorCount = 0
    /\ totalSynced = 0
    /\ mErrors = <<>>
    /\ mRuns = 0
    /\ mResult = NoResult
    /\ mLog = [kind |-> "", id |-> "", term |-> ""]

(***************************************************************************)
(* Bill ingestion: RealVotingDataService.syncBills (politicians.ts) and    *)
(* syncVotingRecords / syncBill (votingRecords.ts).                        *)
(***************************************************************************)
\* texts of the upstream bills of the pipeline
TextPostOffice ==
    [title |-> TitlePostOffice, summary |-> SummaryReport,
     policyArea |-> "", subjects |-> <<>>]
TextHealth ==
    [title |-> TitlePostOffice, summary |-> SummaryHealth,
     policyArea |-> "", subjects |-> <<>>]
TextHospital ==
    [title |-> TitlePostOffice, summary |-> SummaryHospital,
     policyArea |-> "", subjects |-> <<>>]
TextProgressive ==
    [title |-> TitleClimate, summary |-> SummaryProgressive,
     policyArea |-> PolicyEnvironment, subjects |-> <<SubjectSocialSecurity>>]
TextConservative ==
    [title |-> TitleBorder, summary |-> SummaryConservative,
     policyArea |-> PolicyArmedForces, subjects |-> <<SubjectSmallBusiness>>]

PipelineTexts == {TextPostOffice, TextHealth, TextHospital, TextProgressive,
                  TextConservative}

\* upstream bills (CongressBill): congress, type, number and the text fields
BillTypes == {"HR", "S"}
BillNumbers == {"1"}
UpstreamBills ==
    {[congress |-> "118", type |-> ty, number |-> nu, title |-> t.title,
      summary |-> t.summary, policyArea |-> t.policyArea, subjects |-> t.subjects] :
        ty \in BillTypes, nu \in BillNumbers, t \in PipelineTexts}

TopicIds == {topicMappings[i].topicId : i \in DOMAIN topicMappings}

\* rows of api.topics as classifyBillByTopic reads them (id, keywords); the
\* keywords are those of topicMappings
topicsTable == topicMappings

BillRows(cid) == {r \in bills : r.congress_id = cid}

\* .from('bills').select('id').eq('congress_id', cid).eq('congress', congress).single()
SelectBill(cid, congress) ==
    {r \in bills : r.congress_id = cid /\ r.congress = congress}

\* the topics a stored bill is tagged with: bill_topics rows and topic_ids
TopicsOf(cid) ==
    {t \in TopicIds : <<cid, t>> \in bill_topics}
    \cup UNION {r.topic_ids : r \in BillRows(cid)}

\* insert into api.bills under UNIQUE (congress_id)
InsertBill(row) ==
    IF BillRows(row.congress_id) # {}
    THEN [error |-> "23505", rows |-> bills]
    ELSE [error |-> "none", rows |-> bills \cup {row}]

\* the existing row removed where it should be replaced
UpdateBillAsDelete(existing, data) == bills \ existing

\* a second row written where the existing one should be replaced
UpdateBillAsInsert(existing, data) == bills \cup {data}

\* .from('bills').update(billData).eq('id', existingBill.id)
UpdateBill(existing, data) == (bills \ existing) \cup {data}

\* the topics whose mapping has a keyword in the content (associateBillWithTopics)
associateBillWithTopics(bill) ==
    {topicMappings[i].topicId : i \in
        {j \in DOMAIN topicMappings :
            \E k \in DOMAIN topicMappings[j].keywords :
                includes(billContent(bill), topicMappings[j].keywords[k])}}

\* matchedTopics taken from the content of associateBillWithTopics
classifyBillByContent(bill) ==
    {topicsTable[i].topicId : i \in
        {j \in DOMAIN topicsTable :
            \E k \in DOMAIN topicsTable[j].keywords :
                includes(billContent(bill), ToLowerCase(topicsTable[j].keywords[k]))}}

\* classifyBillByTopic: matchedTopics
classifyBillByTopic(bill) ==
    {topicsTable[i].topicId : i \in
        {j \in DOMAIN topicsTable :
            \E k \in DOMAIN topicsTable[j].keywords :
                includes(billText(bill), ToLowerCase(topicsTable[j].keywords[k]))}}

\* the bill_topics upserts of one bill that fail: none, or one of them
LostUpserts(topics) == {{}} \cup {{t} : t \in topics}

\* billData of syncBills
billData(bill) ==
    [congress_id |-> <<bill.number>>, congress |-> bill.congress,
     bill_type |-> bill.type, title |-> bill.title, summary |-> bill.summary,
     policy_area |-> bill.policyArea, subjects |-> bill.subjects,
     progressive_score |-> calculateBillProgressiveScore(bill), topic_ids |-> {}]

\* billData of syncBill
syncBillData(bill) ==
    [congress_id |-> <<bill.congress, bill.type, bill.number>>,
     congress |-> bill.congress, bill_type |-> bill.type, title |-> bill.title,
     summary |-> bill.summary, policy_area |-> "", subjects |-> <<>>,
     progressive_score |-> calculateProgressiveScore(bill),
     topic_ids |-> classifyBillByTopic(bill)]

\* the rows and tags the ingestors derive from each upstream bill, tabulated
billDataOf == [bill \in UpstreamBills |-> billData(bill)]
syncBillDataOf == [bill \in UpstreamBills |-> syncBillData(bill)]
billTopicsOf == [bill \in UpstreamBills |-> associateBillWithTopics(bill)]

NoBillResult == [success |-> FALSE, count |-> 0 - 1, records |-> 0, errors |-> <<>>]

\* the counters and the error list are locals of a call: they start at zero
\* and are gone when it returns
BillLocalsReset ==
    /\ billsSynced' = 0
    /\ totalBills' = 0
    /\ totalRecords' = 0
    /\ bErrors' = <<>>

\* syncBills up to its loop: the listing is fetched; a failed or empty-handed
\* fetch is the fatal error of the stage
StartSyncBills ==
    /\ bPc = "idle"
    /\ bRuns < MaxRuns
    /\ BillLocalsReset
    /\ bRuns' = bRuns + 1
    /\ UNCHANGED <<bills, bill_topics, bLast>>
    /\ \/ /\ bPc' = "idle"
          /\ bLeft' = 0
          /\ bResult' = [success |-> FALSE, count |-> 0, records |-> 0,
                         errors |-> <<"Fatal error in bill sync">>]
       \/ \E n \in 0..MaxBills :
            /\ bPc' = "syncBills"
            /\ bLeft' = n
            /\ bResult' = NoBillResult

\* one iteration of `for (const billSummary of billsData.bills)` in syncBills
SyncBillsRecord ==
    /\ bPc = "syncBills"
    /\ bLeft > 0
    /\ bLeft' = bLeft - 1
    /\ UNCHANGED <<bPc, totalBills, totalRecords, bRuns, bResult>>
    /\ \E bill \in UpstreamBills, detail \in {"ok", "missing", "throw"},
          lookup \in {"ok", "error"}, write \in {"ok", "error"} :
         IF detail = "throw"
         THEN /\ bErrors' = Append(bErrors, "Error syncing bill")
              /\ bLast' = [path |-> "syncBills", congress_id |-> <<bill.number>>,
                           step |-> "error", calls |-> <<"detail">>]
              /\ UNCHANGED <<bills, bill_topics, billsSynced>>
         ELSE IF detail = "missing"
         THEN /\ bLast' = [path |-> "syncBills", congress_id |-> <<bill.number>>,
                           step |-> "no detail", calls |-> <<"detail">>]
              /\ UNCHANGED <<bills, bill_topics, billsSynced, bErrors>>
         ELSE LET data     == billDataOf[bill]
                  existing == IF lookup = "ok"
                              THEN SelectBill(data.congress_id, data.congress)
                              ELSE {}
              IN  /\ billsSynced' = billsSynced + 1
                  /\ bErrors' = bErrors
                  /\ IF Cardinality(existing) = 1
                     THEN \* update(billData).eq('id', existingBill.id)
                          /\ bills' = IF write = "ok"
                                      THEN UpdateBill(existing, data)
                                      ELSE bills
                          /\ bill_topics' = bill_topics
                          /\ bLast' = [path |-> "syncBills",
                                       congress_id |-> data.congress_id,
                                       step |-> "update",
                                       calls |-> <<"detail", "polarity", "select",
                                                   "update">>]
                     ELSE \* insert(billData), then associateBillWithTopics
                          LET res == InsertBill(data)
                              stored == write = "ok" /\ res.error = "none"
                          IN  /\ bills' = IF stored THEN res.rows ELSE bills
                              /\ \E lost \in LostUpserts(billTopicsOf[bill]) :
                                    /\ bill_topics' =
                                         IF stored
                                         THEN bill_topics \cup
                                              {<<data.congress_id, t>> :
                                                 t \in billTopicsOf[bill] \ lost}
                                         ELSE bill_topics
                                    /\ bLast' = [path |-> "syncBills",
                                                 congress_id |-> data.congress_id,
                                                 step |-> IF stored /\ lost # {}
                                                          THEN "insert, tag lost"
                                                          ELSE "insert",
                                                 calls |->
                                                   IF stored
                                                   THEN <<"detail", "polarity", "select",
                                                          "insert", "topics">>
                                                   ELSE <<"detail", "polarity", "select",
                                                          "insert">>]

\* the process is stopped inside the insert branch of syncBills: the bills
\* insert has returned, and associateBillWithTopics, which upserts one
\* bill_topics row per matched topic in the order of topicMappings, has
\* written the first `done` of them; no result is returned and the locals
\* are gone
InterruptSyncBills ==
    /\ bPc = "syncBills"
    /\ bLeft > 0
    /\ bPc' = "idle"
    /\ bLeft' = 0
    /\ bResult' = NoBillResult
    /\ BillLocalsReset
    /\ UNCHANGED bRuns
    /\ \E bill \in UpstreamBills, done \in 0..Len(topicMappings) :
         LET data == billDataOf[bill]
             res  == InsertBill(data)
         IN  /\ SelectBill(data.congress_id, data.congress) = {}
             /\ res.error = "none"
             /\ bills' = res.rows
             /\ bill_topics' = bill_topics \cup
                    {<<data.congress_id, topicMappings[i].topicId>> :
                        i \in {j \in 1..done :
                                 topicMappings[j].topicId \in billTopicsOf[bill]}}
             /\ bLast' = [path |-> "syncBills", congress_id |-> data.congress_id,
                          step |-> "interrupted",
                          calls |-> <<"detail", "polarity", "select", "insert">>]

\* syncBills returns
EndSyncBills ==
    /\ bPc = "syncBills"
    /\ bLeft = 0
    /\ bPc' = "idle"
    /\ bResult' = [success |-> Len(bErrors) = 0, count |-> billsSynced,
                   records |-> 0, errors |-> bErrors]
    /\ BillLocalsReset
    /\ UNCHANGED <<bills, bill_topics, bLeft, bRuns, bLast>>

\* syncVotingRecords up to its loop
StartSyncVotingRecords ==
    /\ bPc = "idle"
    /\ bRuns < MaxRuns
    /\ BillLocalsReset
    /\ bRuns' = bRuns + 1
    /\ UNCHANGED <<bills, bill_topics, bLast>>
    /\ \/ /\ bPc' = "idle"
          /\ bLeft' = 0
          /\ bResult' = [success |-> FALSE, count |-> 0, records |-> 0,
                         errors |-> <<"Voting records sync failed">>]
       \/ \E n \in 0..MaxBills :
            /\ bPc' = "syncVotingRecords"
            /\ bLeft' = n
            /\ bResult' = NoBillResult

\* one iteration of `for (const bill of billsData.bills)` in syncVotingRecords,
\* syncBill included
SyncVotingRecordsBill ==
    /\ bPc = "syncVotingRecords"
    /\ bLeft > 0
    /\ bLeft' = bLeft - 1
    /\ UNCHANGED <<bPc, bill_topics, billsSynced, bRuns, bResult>>
    /\ \E bill \in UpstreamBills, detail \in {"ok", "missing", "throw"},
          lookup \in {"ok", "error"}, write \in {"ok", "error"},
          topics \in {"ok", "error"}, voteActions \in {0, 1} :
         LET \* classifyBillByTopic returns [] when the topics cannot be read
             data == IF topics = "ok"
                     THEN syncBillDataOf[bill]
                     ELSE [syncBillDataOf[bill] EXCEPT !.topic_ids = {}]
         IN  IF detail = "throw"
             THEN /\ bErrors' = Append(bErrors, "Failed to process bill")
                  /\ bLast' = [path |-> "syncBill", congress_id |-> data.congress_id,
                               step |-> "error", calls |-> <<"detail">>]
                  /\ UNCHANGED <<bills, totalBills, totalRecords>>
             ELSE IF detail = "missing"
             THEN /\ bLast' = [path |-> "syncBill", congress_id |-> data.congress_id,
                               step |-> "no detail", calls |-> <<"detail">>]
                  /\ UNCHANGED <<bills, totalBills, totalRecords, bErrors>>
             ELSE IF lookup = "ok" /\ BillRows(data.congress_id) # {}
             THEN \* syncBill returns existingBill.id
                  /\ totalBills' = totalBills + 1
                  /\ totalRecords' = totalRecords + voteActions
                  /\ bLast' = [path |-> "syncBill", congress_id |-> data.congress_id,
                               step |-> "existing", calls |-> <<"detail", "select">>]
                  /\ UNCHANGED <<bills, bErrors>>
             ELSE IF write = "ok" /\ InsertBill(data).error = "none"
             THEN /\ bills' = InsertBill(data).rows
                  /\ totalBills' = totalBills + 1
                  /\ totalRecords' = totalRecords + voteActions
                  /\ bLast' = [path |-> "syncBill", congress_id |-> data.congress_id,
                               step |-> IF topics = "ok" THEN "insert"
                                        ELSE "insert, topics unread",
                               calls |-> <<"detail", "select", "topics", "polarity",
                                           "insert">>]
                  /\ UNCHANGED bErrors
             ELSE \* the insert fails: syncBill returns null, `continue`
                  /\ bLast' = [path |-> "syncBill", congress_id |-> data.congress_id,
                               step |-> "insert failed",
                               calls |-> <<"detail", "select", "topics", "polarity",
                                           "insert">>]
                  /\ UNCHANGED <<bills, totalBills, totalRecords, bErrors>>

\* syncVotingRecords returns
EndSyncVotingRecords ==
    /\ bPc = "syncVotingRecords"
    /\ bLeft = 0
    /\ bPc' = "idle"
    /\ bResult' = [success |-> (Len(bErrors) = 0 \/ totalBills > 0),
                   count |-> totalBills, records |-> totalRecords,
                   errors |-> bErrors]
    /\ BillLocalsReset
    /\ UNCHANGED <<bills, bill_topics, bLeft, bRuns, bLast>>

\* no bill ingestor has run and the bill tables are empty
BillsInit ==
    /\ bills = {}
    /\ bill_topics = {}
    /\ bPc = "idle"
    /\ bLeft = 0
    /\ billsSynced = 0
    /\ totalBills = 0
    /\ totalRecords = 0
    /\ bErrors = <<>>
    /\ bRuns = 0
    /\ bResult = NoBillResult
    /\ bLast = [path |-> "", congress_id |-> <<>>, step |-> "", calls |-> <<>>]

(***************************************************************************)
(* Vote sync: RealVotingDataService.syncVotes (politicians.ts).            *)
(***************************************************************************)
VoteValues == {"Yea", "Nay", "Present", "Not Voting"}
RollCalls == {1, 2}
VoteDates == {1, 2}
\* vote.bill: absent, or the number of a bill
VoteBills == {"none", "1", "2"}
Chambers == {"house", "senate"}

\* vote details (CongressVote) the upstream API returns for a chamber
UpstreamVotes(chamber) ==
    [congress : {"118"}, chamber : {chamber}, session : {1}, rollCall : RollCalls,
     bill : VoteBills, date : VoteDates]

\* the votes the synced member entries carry
SyncedVoteValues == {"Yea", "Nay"}

\* vote.members[] entries
MemberVotes == [bioguideId : BioguideIds, vote : SyncedVoteValues]

\* billId of a vote without resolvable bill
NoBill == <<>>

\* bill rows as syncBills stores them, for the bills the votes refer to
StoredBill(number, text) ==
    billData([congress |-> "118", type |-> "HR", number |-> number,
              title |-> text.title, summary |-> text.summary,
              policyArea |-> text.policyArea, subjects |-> text.subjects])

\* .from('congressional_votes').select('id').eq(congress, chamber, session, roll_call)
SelectCongressionalVote(vote) ==
    {r \in congressional_votes :
        /\ r.congress = vote.congress
        /\ r.chamber = vote.chamber
        /\ r.session = vote.session
        /\ r.roll_call = vote.rollCall}

\* voteData of syncVotes
voteData(vote, billId) ==
    [congress |-> vote.congress, chamber |-> vote.chamber, session |-> vote.session,
     roll_call |-> vote.rollCall, bill_id |-> billId, vote_date |-> vote.date]

\* id of a congressional_votes row
VoteId(r) == <<r.chamber, r.session, r.roll_call>>

RecordsOf(politician, bill) ==
    {r \in voting_records : r.politician_id = politician /\ r.bill_id = bill}

\* .from('voting_records').select('id').eq('politician_id', ..).eq('bill_id', ..)
\*   .eq('congressional_vote_id', ..)
SelectVotingRecord(politician, bill, voteId) ==
    {r \in RecordsOf(politician, bill) : r.congressional_vote_id = voteId}

\* insert into api.voting_records: the table has no unique constraint but its id
InsertVotingRecord(row) ==
    voting_records \cup
      {[politician_id |-> row.politician_id, bill_id |-> row.bill_id,
        vote |-> row.vote, vote_date |-> row.vote_date,
        congressional_vote_id |-> row.congressional_vote_id,
        n |-> Cardinality(SelectVotingRecord(row.politician_id, row.bill_id,
                                             row.congressional_vote_id)) + 1]}

NoVoteResult ==
    [success |-> FALSE, votesSynced |-> 0 - 1, recordsSynced |-> 0, errors |-> <<>>]

NoCurrentVote ==
    [billId |-> NoBill, congressionalVoteId |-> <<>>, date |-> 0, stored |-> ""]

NoMemberVote ==
    [politician |-> "", bill_id |-> NoBill, vote |-> "", vote_date |-> 0, step |-> ""]

\* syncVotes up to its loop: the vote listing is fetched
StartSyncVotes ==
    /\ vPc = "idle"
    /\ vRuns < MaxRuns
    /\ vRuns' = vRuns + 1
    /\ votesSynced' = 0
    /\ recordsSynced' = 0
    /\ vErrors' = <<>>
    /\ vMembersLeft' = 0
    /\ UNCHANGED <<congressional_votes, voting_records, vCur, vLast>>
    /\ \E chamber \in Chambers :
         /\ vChamber' = chamber
         /\ \/ /\ vPc' = "idle"
               /\ vLeft' = 0
               /\ vResult' = [success |-> FALSE, votesSynced |-> 0, recordsSynced |-> 0,
                              errors |-> <<"Fatal error in votes sync">>]
            \/ \E n \in 0..MaxVotes :
                 /\ vPc' = "votes"
                 /\ vLeft' = n
                 /\ vResult' = NoVoteResult

\* one iteration of `for (const voteSummary of votesData.votes)` up to the
\* member loop: detail fetch, bill lookup, congressional_votes update or insert
SyncVote ==
    /\ vPc = "votes"
    /\ vLeft > 0
    /\ UNCHANGED <<voting_records, vChamber, recordsSynced, vRuns, vResult, vLast>>
    /\ \E vote \in UpstreamVotes(vChamber), detail \in {"ok", "missing", "throw"},
          billLookup \in {"ok", "error"}, voteLookup \in {"ok", "error"},
          write \in {"ok", "error"}, members \in 0..MaxMemberVotes :
         LET bill     == IF vote.bill # "none" /\ billLookup = "ok"
                         THEN SelectBill(<<vote.bill>>, vote.congress)
                         ELSE {}
             billId   == IF Cardinality(bill) = 1 THEN <<vote.bill>> ELSE NoBill
             existing == IF voteLookup = "ok" THEN SelectCongressionalVote(vote) ELSE {}
             data     == voteData(vote, billId)
             inserted == write = "ok" /\ SelectCongressionalVote(vote) = {}
         IN  IF detail = "throw"
             THEN /\ vErrors' = Append(vErrors, "Error syncing vote")
                  /\ vLeft' = vLeft - 1
                  /\ vCur' = NoCurrentVote
                  /\ UNCHANGED <<congressional_votes, vPc, vMembersLeft, votesSynced>>
             ELSE IF detail = "missing"
             THEN /\ vLeft' = vLeft - 1
                  /\ vCur' = NoCurrentVote
                  /\ UNCHANGED <<congressional_votes, vPc, vMembersLeft, votesSynced,
                                 vErrors>>
             ELSE IF Cardinality(existing) # 1 /\ ~inserted
             THEN \* newVote is null: newVote!.id throws into the vote's catch
                  /\ vErrors' = Append(vErrors, "Error syncing vote")
                  /\ vLeft' = vLeft - 1
                  /\ vCur' = NoCurrentVote
                  /\ UNCHANGED <<congressional_votes, vPc, vMembersLeft, votesSynced>>
             ELSE /\ congressional_votes' =
                       IF Cardinality(existing) = 1
                       THEN (IF write = "ok"
                             THEN (congressional_votes \ existing) \cup {data}
                             ELSE congressional_votes)
                       ELSE congressional_votes \cup {data}
                  /\ votesSynced' = IF Cardinality(existing) = 1
                                    THEN votesSynced ELSE votesSynced + 1
                  /\ vErrors' = vErrors
                  /\ vCur' = [billId |-> billId, congressionalVoteId |-> VoteId(data),
                              date |-> vote.date,
                              stored |-> IF Cardinality(existing) # 1 THEN "inserted"
                                         ELSE IF write = "ok" THEN "updated"
                                         ELSE "update failed"]
                  /\ vMembersLeft' = members
                  /\ vPc' = IF members > 0 THEN "members" ELSE "votes"
                  /\ vLeft' = IF members > 0 THEN vLeft ELSE vLeft - 1

\* a member vote is recorded whenever its legislator is found (the version
\* that does not ask for a bill)
recordableWithoutBill(politician, billId) ==
    Cardinality(politician) = 1

\* `if (politician && billId)`
recordable(politician, billId) ==
    Cardinality(politician) = 1 /\ billId # NoBill

\* one iteration of `for (const memberVote of vote.members)`; after the last
\* member the vote is done
SyncMemberVote ==
    /\ vPc = "members"
    /\ vMembersLeft > 0
    /\ vMembersLeft' = vMembersLeft - 1
    /\ vPc' = IF vMembersLeft = 1 THEN "votes" ELSE "members"
    /\ vLeft' = IF vMembersLeft = 1 THEN vLeft - 1 ELSE vLeft
    /\ vCur' = IF vMembersLeft = 1 THEN NoCurrentVote ELSE vCur
    /\ UNCHANGED <<congressional_votes, vChamber, votesSynced, vRuns, vResult>>
    /\ \E memberVote \in MemberVotes,
          db \in {"ok", "politician lookup error", "record lookup error",
                  "write error", "throw"} :
         LET politician == IF db = "politician lookup error"
                           THEN {}
                           ELSE PoliticianRows(memberVote.bioguideId)
             existingRecord ==
                 IF db = "record lookup error"
                 THEN {}
                 ELSE SelectVotingRecord(memberVote.bioguideId, vCur.billId,
                                         vCur.congressionalVoteId)
             seen(step) == [politician |-> memberVote.bioguideId,
                            bill_id |-> vCur.billId, vote |-> memberVote.vote,
                            vote_date |-> vCur.date, step |-> step]
         IN  IF db = "throw"
             THEN /\ vErrors' = Append(vErrors, "Error syncing vote for member")
                  /\ vLast' = seen("error")
                  /\ UNCHANGED <<voting_records, recordsSynced>>
             ELSE IF ~recordable(politician, vCur.billId)
             THEN /\ vLast' = seen("skipped")
                  /\ UNCHANGED <<voting_records, recordsSynced, vErrors>>
             ELSE IF Cardinality(existingRecord) = 1
             THEN /\ vLast' = seen("existing")
                  /\ UNCHANGED <<voting_records, recordsSynced, vErrors>>
             ELSE /\ voting_records' =
                       IF db = "write error"
                       THEN voting_records
                       ELSE InsertVotingRecord(
                              [politician_id |-> memberVote.bioguideId,
                               bill_id |-> vCur.billId, vote |-> memberVote.vote,
                               vote_date |-> vCur.date,
                               congressional_vote_id |-> vCur.congressionalVoteId])
                  /\ recordsSynced' = recordsSynced + 1
                  /\ vLast' = seen(IF db = "write error" THEN "insert failed"
                                   ELSE "inserted")
                  /\ vErrors' = vErrors

\* syncVotes returns
EndSyncVotes ==
    /\ vPc = "votes"
    /\ vLeft = 0
    /\ vPc' = "idle"
    /\ vResult' = [success |-> Len(vErrors) = 0, votesSynced |-> votesSynced,
                   recordsSynced |-> recordsSynced, errors |-> vErrors]
    /\ votesSynced' = 0
    /\ recordsSynced' = 0
    /\ vErrors' = <<>>
    /\ vLast' = NoMemberVote
    /\ UNCHANGED <<congressional_votes, voting_records, vChamber, vLeft, vMembersLeft,
                   vCur, vRuns>>

\* syncVotes has not run and the vote tables are empty
VotesInit ==
    /\ congressional_votes = {}
    /\ voting_records = {}
    /\ vPc = "idle"
    /\ vChamber = "house"
    /\ vLeft = 0
    /\ vMembersLeft = 0
    /\ vCur = NoCurrentVote
    /\ votesSynced = 0
    /\ recordsSynced = 0
    /\ vErrors = <<>>
    /\ vRuns = 0
    /\ vResult = NoVoteResult
    /\ vLast = NoMemberVote

\* the store syncVotes works on: legislator A001 and two bills are stored
MembersSynced ==
    /\ politicians = {[congress_id |-> "A001", chamber |-> "house", n |-> 1]}
    /\ mPc = "idle"
    /\ mChamber = "SENATE"
    /\ mPage = 0
    /\ mHasMore = TRUE
    /\ mPageLeft = 0
    /\ syncedCount = 0
    /\ errorCount = 0
    /\ totalSynced = 0
    /\ mErrors = <<>>
    /\ mRuns = 0
    /\ mResult = NoResult
    /\ mLog = [kind |-> "", id |-> "", term |-> ""]

\* the bill_topics rows syncBills writes for a stored row
StoredTopics(r) ==
    {<<r.congress_id, t>> :
        t \in associateBillWithTopics(
                 [title |-> r.title, summary |-> r.summary,
                  policyArea |-> r.policy_area, subjects |-> r.subjects])}

VoteStageBills == {StoredBill("1", TextHealth), StoredBill("2", TextHospital)}

BillsSynced ==
    /\ bills = VoteStageBills
    /\ bill_topics = UNION {StoredTopics(r) : r \in VoteStageBills}
    /\ bPc = "idle"
    /\ bLeft = 0
    /\ billsSynced = 0
    /\ totalBills = 0
    /\ totalRecords = 0
    /\ bErrors = <<>>
    /\ bRuns = 0
    /\ bResult = NoBillResult
    /\ bLast = [path |-> "", congress_id |-> <<>>, step |-> "", calls |-> <<>>]

(***************************************************************************)
(* Scoring: calculateTopicScore / calculatePoliticalScores                 *)
(* (politicalScoring.ts), api.calculate_politician_score (0005 migration)  *)
(* and RealVotingDataService.calculateRealPoliticalScores (politicians.ts).*)
(* Scores are exact fractions <<n, d>> of tenths, d > 0, in lowest terms;  *)
(* a confidence c is kept as 400 * c * c.                                  *)
(***************************************************************************)
\* progressive_score of a bill that has none
NULL == 0 - 1000

Abs(x) == IF x < 0 THEN 0 - x ELSE x

RECURSIVE GCD(_, _)
GCD(a, b) == IF b = 0 THEN a ELSE GCD(b, a % b)

Frac(n, d) == LET g == GCD(Abs(n), d) IN <<n \div g, d \div g>>
FracAdd(a, b) == Frac(a[1] * b[2] + b[1] * a[2], a[2] * b[2])
FracLess(a, b) == a[1] * b[2] < b[1] * a[2]

\* Math.max(-1, Math.min(1, x))
ClampScore(x) ==
    IF FracLess(<<10, 1>>, x) THEN <<10, 1>>
    ELSE IF FracLess(x, <<0 - 10, 1>>) THEN <<0 - 10, 1>>
    ELSE x

HealthcareId == topicMappings[1].topicId
ClimateId == topicMappings[4].topicId

\* rows of api.topics the scoring loops iterate
scoringTopics == <<HealthcareId, ClimateId>>

\* rows of api.politicians the scoring loops iterate
scoringPoliticians ==
    SelectSeq(<<"A001", "A002">>, LAMBDA id : PoliticianRows(id) # {})

\* the bills of the scored store: polarity in tenths, or none (the column is
\* nullable), and topics
ScoredBillPool ==
    {[number |-> "1", progressive_score |-> 8, topics |-> {HealthcareId}],
     [number |-> "2", progressive_score |-> 0 - 6, topics |-> {HealthcareId}],
     [number |-> "3", progressive_score |-> NULL, topics |-> {HealthcareId}],
     [number |-> "4", progressive_score |-> 5, topics |-> {HealthcareId}],
     [number |-> "5", progressive_score |-> 0 - 5, topics |-> {HealthcareId, ClimateId}],
     [number |-> "6", progressive_score |-> 8, topics |-> {ClimateId}]}

\* the bill rows of the scored store: syncBill keeps the topics in topic_ids,
\* syncBills in bill_topics
ScoredBills(pipeline) ==
    {[congress_id |-> <<b.number>>, congress |-> "118", bill_type |-> "HR",
      title |-> TitlePostOffice,
      summary |-> "", policy_area |-> "", subjects |-> <<>>,
      progressive_score |-> b.progressive_score,
      topic_ids |-> IF pipeline = "routes" THEN b.topics ELSE {}] : b \in ScoredBillPool}

ScoredBillTopics(pipeline) ==
    IF pipeline = "routes"
    THEN {}
    ELSE UNION {{<<(<<b.number>>), t>> : t \in b.topics} : b \in ScoredBillPool}

\* a voting record of the scored store
StoredRecord(politician, number, vote) ==
    [politician_id |-> politician, bill_id |-> <<number>>, vote |-> vote,
     vote_date |-> 1, congressional_vote_id |-> <<"house", 1, 1>>, n |-> 1]

\* the voting records a legislator can have in the scored store: at most
\* MaxRecords, one for a bill
RecordStores(politician) ==
    UNION {{{StoredRecord(politician, number, f[number]) : number \in Voted} :
               f \in [Voted -> VoteValues]} :
             Voted \in {X \in SUBSET {b.number : b \in ScoredBillPool} :
                          Cardinality(X) <= MaxRecords}}

BillOf(record) == CHOOSE b \in bills : b.congress_id = record.bill_id

\* the switch with Nay scored as Yea
voteScoreUnsigned(vote) ==
    CASE vote.vote \in {"Yea", "Nay"} -> BillOf(vote).progressive_score
      [] OTHER -> 0

\* voteScore of one vote in calculateTopicScore's loop
voteScore(vote) ==
    CASE vote.vote = "Yea" -> BillOf(vote).progressive_score
      [] vote.vote = "Nay" -> 0 - BillOf(vote).progressive_score
      [] OTHER -> 0

\* totalScore at the end of calculateTopicScore's loop
RECURSIVE totalScore(_)
totalScore(votes) ==
    IF votes = {}
    THEN 0
    ELSE LET vote == CHOOSE v \in votes : TRUE
         IN  voteScore(vote) + totalScore(votes \ {vote})

\* a confidence without the cap
uncappedConfidence(total_votes) == total_votes * total_votes

\* Math.min(1.0, Math.sqrt(validVotes) / 10), as 400 * confidence^2
sqrtConfidence(validVotes) == Min(400, 4 * validVotes)

\* LEAST(1.0, total_votes / 20.0), as 400 * confidence^2
linearConfidence(total_votes) == Min(400, total_votes * total_votes)

\* no confidence is being computed
ConfidenceIdle ==
    /\ cEngine = ""
    /\ cVotes = 0
    /\ cConfidence = NULL

ScoringEngines == {"calculateTopicScore", "calculate_politician_score"}

\* the confidence a scorer returns for a pair with the given number of votes
\* (0 votes: the zero row of either scorer)
confidenceOf(engine, votes) ==
    IF votes = 0 THEN 0
    ELSE IF engine = "calculateTopicScore" THEN sqrtConfidence(votes)
    ELSE linearConfidence(votes)

\* a scorer computes the confidence of a pair
ComputeConfidence ==
    /\ cConfidence = NULL
    /\ cConfidence' = confidenceOf(cEngine, cVotes)
    /\ UNCHANGED <<cEngine, cVotes>>

\* the pair has one more vote and the scorer is run again
RecomputeConfidence ==
    /\ cConfidence # NULL
    /\ cVotes < MaxVoteCount
    /\ cVotes' = cVotes + 1
    /\ cConfidence' = confidenceOf(cEngine, cVotes + 1)
    /\ UNCHANGED cEngine

\* a scorer is about to compute the confidence of a pair with cVotes votes
ConfidenceInit ==
    /\ cEngine \in ScoringEngines
    /\ cVotes \in 0..MaxVoteCount
    /\ cConfidence = NULL

ZeroScore(politicianId, topicId) ==
    [politician_id |-> politicianId, topic_id |-> topicId, score |-> <<0, 1>>,
     vote_count |-> 0, confidence |-> 0]

\* the votes the loop of calculateTopicScore counts
ValidVotes(votes) ==
    {v \in votes : /\ BillOf(v).progressive_score # NULL
                   /\ v.vote \in {"Yea", "Nay"}}

\* calculateTopicScore over the voting records given, the query succeeding
calculateTopicScoreOn(records, politicianId, topicId) ==
    LET votes == {v \in records :
                    /\ v.politician_id = politicianId
                    /\ \E b \in bills : /\ b.congress_id = v.bill_id
                                        /\ topicId \in b.topic_ids
                                        /\ b.progressive_score # NULL}
        valid == ValidVotes(votes)
        validVotes == Cardinality(valid)
    IN  IF votes = {} \/ validVotes = 0
        THEN ZeroScore(politicianId, topicId)
        ELSE [politician_id |-> politicianId, topic_id |-> topicId,
              score |-> ClampScore(Frac(totalScore(valid), validVotes)),
              vote_count |-> validVotes,
              confidence |-> sqrtConfidence(validVotes)]

calculateTopicScore(politicianId, topicId) ==
    calculateTopicScoreOn(voting_records, politicianId, topicId)

\* SELECT COUNT(*) INTO total_votes
total_votes(joined) == Cardinality({v \in joined : v.vote \in {"Yea", "Nay"}})

\* the second count taking every Yea on a progressive bill and no Nay
progressive_votes_yea_only(joined) ==
    Cardinality({v \in joined :
        LET ps == BillOf(v).progressive_score
        IN  ps # NULL /\ v.vote = "Yea" /\ ps > 0})

\* SELECT COUNT(*) INTO progressive_votes; a comparison with NULL is not true
progressive_votes(joined) ==
    Cardinality({v \in joined :
        LET ps == BillOf(v).progressive_score
        IN  /\ ps # NULL
            /\ \/ v.vote = "Yea" /\ ps > 0
               \/ v.vote = "Nay" /\ ps < 0})

\* api.calculate_politician_score over the voting records given
calculate_politician_score_on(records, politician_uuid, topic_uuid) ==
    LET joined == {v \in records :
                     /\ v.politician_id = politician_uuid
                     /\ \E b \in bills : b.congress_id = v.bill_id
                     /\ <<v.bill_id, topic_uuid>> \in bill_topics}
    IN  IF total_votes(joined) = 0
        THEN ZeroScore(politician_uuid, topic_uuid)
        ELSE [politician_id |-> politician_uuid, topic_id |-> topic_uuid,
              score |-> Frac(10 * (2 * progressive_votes(joined) - total_votes(joined)),
                             total_votes(joined)),
              vote_count |-> total_votes(joined),
              confidence |-> linearConfidence(total_votes(joined))]

calculate_politician_score(politician_uuid, topic_uuid) ==
    calculate_politician_score_on(voting_records, politician_uuid, topic_uuid)

ScoreRows(politicianId) == {r \in political_scores : r.politician_id = politicianId}

\* upsert into api.political_scores, onConflict: 'politician_id,topic_id'
UpsertScore(row) ==
    {r \in political_scores :
        ~(r.politician_id = row.politician_id /\ r.topic_id = row.topic_id)}
    \cup {row}

\* topicScores.reduce((sum, s) => sum + s.score, 0)
RECURSIVE sumScores(_)
sumScores(rows) ==
    IF rows = {}
    THEN <<0, 1>>
    ELSE LET r == CHOOSE x \in rows : TRUE
         IN  FracAdd(r.score, sumScores(rows \ {r}))

\* the philosophy thresholds of calculateRealPoliticalScores
philosophyOf(avgScore) ==
    IF FracLess(avgScore, <<0 - 6, 1>>) THEN "Progressive"
    ELSE IF FracLess(avgScore, <<0 - 2, 1>>) THEN "Liberal"
    ELSE IF FracLess(avgScore, <<2, 1>>) THEN "Moderate"
    ELSE IF FracLess(avgScore, <<6, 1>>) THEN "Conservative"
    ELSE "Very Conservative"

\* an aggregate over the topics the politician has votes in
aggregateOfVotedTopics(politicianId, topicScores) ==
    LET voted == {r \in topicScores : r.vote_count > 0}
        sum == sumScores(voted)
        avgScore == IF voted = {} THEN <<0, 1>>
                    ELSE Frac(sum[1], sum[2] * Cardinality(voted))
    IN  [politician_id |-> politicianId, overall_score |-> avgScore,
         philosophy |-> philosophyOf(avgScore)]

\* the aggregate row of a politician from the topic scores stored
aggregateOf(politicianId, topicScores) ==
    LET sum == sumScores(topicScores)
        avgScore == Frac(sum[1], sum[2] * Cardinality(topicScores))
    IN  [politician_id |-> politicianId, overall_score |-> avgScore,
         philosophy |-> philosophyOf(avgScore)]

\* upsert into api.aggregate_scores, onConflict: 'politician_id'
UpsertAggregate(row) ==
    {r \in aggregate_scores : r.politician_id # row.politician_id} \cup {row}

NoScoreResult == [success |-> FALSE, count |-> 0 - 1, errors |-> <<>>]

NoPair == [engine |-> "", politician |-> "", topic |-> "", step |-> ""]

\* the loop moves to the next topic, or to the next politician's first topic
NextPair ==
    IF sTopic < Len(scoringTopics)
    THEN sTopic' = sTopic + 1 /\ sPol' = sPol
    ELSE sTopic' = 1 /\ sPol' = sPol + 1

ScoreLocalsReset ==
    /\ calculatedScores' = 0
    /\ politiciansScored' = 0
    /\ sErrors' = <<>>

\* calculatePoliticalScores up to its loops: politicians and topics are read
StartCalculatePoliticalScores ==
    /\ sPc = "idle"
    /\ sPipeline = "routes"
    /\ sRuns < MaxScoreRuns
    /\ sRuns' = sRuns + 1
    /\ ScoreLocalsReset
    /\ sPol' = 1
    /\ sTopic' = 1
    /\ sLast' = NoPair
    /\ UNCHANGED <<political_scores, aggregate_scores, sPipeline>>
    /\ \/ /\ sPc' = "idle"
          /\ sResult' = [success |-> FALSE, count |-> 0,
                         errors |-> <<"Political scoring failed">>]
       \/ /\ sPc' = "calculatePoliticalScores"
          /\ sResult' = NoScoreResult

\* one iteration of the inner loop of calculatePoliticalScores
ScorePair ==
    /\ sPc = "calculatePoliticalScores"
    /\ sPol <= Len(scoringPoliticians)
    /\ NextPair
    /\ UNCHANGED <<aggregate_scores, sPipeline, sPc, politiciansScored, sRuns, sResult>>
    /\ \E db \in {"ok", "query error", "upsert error", "throw"} :
         LET politicianId == scoringPoliticians[sPol]
             topicId == scoringTopics[sTopic]
             score == calculateTopicScore(politicianId, topicId)
             pair(step) == [engine |-> "calculateTopicScore", politician |-> politicianId,
                            topic |-> topicId, step |-> step]
         IN  CASE db = "query error" ->
                    \* calculateTopicScore returns null: nothing is written
                    /\ sLast' = pair("null")
                    /\ UNCHANGED <<political_scores, calculatedScores, sErrors>>
               [] db = "upsert error" ->
                    /\ sErrors' = Append(sErrors, "Failed to save score")
                    /\ sLast' = pair("upsert error")
                    /\ UNCHANGED <<political_scores, calculatedScores>>
               [] db = "throw" ->
                    /\ sErrors' = Append(sErrors, "Error calculating score")
                    /\ sLast' = pair("error")
                    /\ UNCHANGED <<political_scores, calculatedScores>>
               [] OTHER ->
                    /\ political_scores' = UpsertScore(score)
                    /\ calculatedScores' = calculatedScores + 1
                    /\ sLast' = pair("stored")
                    /\ UNCHANGED sErrors

\* calculatePoliticalScores returns
EndCalculatePoliticalScores ==
    /\ sPc = "calculatePoliticalScores"
    /\ sPol > Len(scoringPoliticians)
    /\ sPc' = "idle"
    /\ sResult' = [success |-> (Len(sErrors) = 0 \/ calculatedScores > 0),
                   count |-> calculatedScores, errors |-> sErrors]
    /\ ScoreLocalsReset
    /\ UNCHANGED <<political_scores, aggregate_scores, sPipeline, sPol, sTopic, sRuns,
                   sLast>>

\* calculateRealPoliticalScores up to its loops
StartCalculateRealPoliticalScores ==
    /\ sPc = "idle"
    /\ sPipeline = "real"
    /\ sRuns < MaxScoreRuns
    /\ sRuns' = sRuns + 1
    /\ ScoreLocalsReset
    /\ sPol' = 1
    /\ sTopic' = 1
    /\ sLast' = NoPair
    /\ UNCHANGED <<political_scores, aggregate_scores, sPipeline>>
    /\ \/ /\ sPc' = "idle"
          /\ sResult' = [success |-> FALSE, count |-> 0,
                         errors |-> <<"Fatal error in score calculation">>]
       \/ /\ sPc' = "calculateRealPoliticalScores"
          /\ sResult' = NoScoreResult

\* one iteration of `for (const topic of topics)` in calculateRealPoliticalScores
RealScorePair ==
    /\ sPc = "calculateRealPoliticalScores"
    /\ sPol <= Len(scoringPoliticians)
    /\ sTopic <= Len(scoringTopics)
    /\ UNCHANGED <<aggregate_scores, sPipeline, sPc, calculatedScores, politiciansScored,
                   sRuns, sResult>>
    /\ \E db \in {"ok", "rpc error", "upsert error", "throw"} :
         LET politicianId == scoringPoliticians[sPol]
             topicId == scoringTopics[sTopic]
             result == calculate_politician_score(politicianId, topicId)
             pair(step) == [engine |-> "calculate_politician_score",
                            politician |-> politicianId, topic |-> topicId,
                            step |-> step]
         IN  CASE db = "throw" ->
                    \* the politician's catch: the rest of the politician is skipped
                    /\ sErrors' = Append(sErrors, "Error calculating scores")
                    /\ sLast' = pair("error")
                    /\ sPol' = sPol + 1
                    /\ sTopic' = 1
                    /\ UNCHANGED political_scores
               [] db = "rpc error" ->
                    \* scoreData is null: no upsert
                    /\ sLast' = pair("null")
                    /\ sTopic' = sTopic + 1
                    /\ UNCHANGED <<political_scores, sErrors, sPol>>
               [] db = "upsert error" ->
                    \* the upsert's error is not looked at
                    /\ sLast' = pair("upsert error")
                    /\ sTopic' = sTopic + 1
                    /\ UNCHANGED <<political_scores, sErrors, sPol>>
               [] OTHER ->
                    /\ political_scores' = UpsertScore(result)
                    /\ sLast' = pair("stored")
                    /\ sTopic' = sTopic + 1
                    /\ UNCHANGED <<sErrors, sPol>>

\* the rest of one iteration of `for (const politician of politicians)`: the
\* aggregate score and the philosophy
RealAggregate ==
    /\ sPc = "calculateRealPoliticalScores"
    /\ sPol <= Len(scoringPoliticians)
    /\ sTopic > Len(scoringTopics)
    /\ sPol' = sPol + 1
    /\ sTopic' = 1
    /\ UNCHANGED <<political_scores, sPipeline, sPc, calculatedScores, sRuns, sResult>>
    /\ \E db \in {"ok", "select error", "upsert error", "throw"} :
         LET politicianId == scoringPoliticians[sPol]
             topicScores == IF db = "select error" THEN {} ELSE ScoreRows(politicianId)
             aggregate(step) == [engine |-> "aggregate", politician |-> politicianId,
                                 topic |-> "", step |-> step]
         IN  IF db = "throw"
             THEN /\ sErrors' = Append(sErrors, "Error calculating scores")
                  /\ sLast' = aggregate("error")
                  /\ UNCHANGED <<aggregate_scores, politiciansScored>>
             ELSE /\ aggregate_scores' =
                       IF topicScores # {} /\ db # "upsert error"
                       THEN UpsertAggregate(aggregateOf(politicianId, topicScores))
                       ELSE aggregate_scores
                  /\ sLast' = aggregate(IF topicScores = {} THEN "no scores"
                                        ELSE IF db = "upsert error" THEN "upsert error"
                                        ELSE "stored")
                  /\ politiciansScored' = politiciansScored + 1
                  /\ sErrors' = sErrors

\* calculateRealPoliticalScores returns
EndCalculateRealPoliticalScores ==
    /\ sPc = "calculateRealPoliticalScores"
    /\ sPol > Len(scoringPoliticians)
    /\ sPc' = "idle"
    /\ sResult' = [success |-> Len(sErrors) = 0, count |-> politiciansScored,
                   errors |-> sErrors]
    /\ ScoreLocalsReset
    /\ UNCHANGED <<political_scores, aggregate_scores, sPipeline, sPol, sTopic, sRuns,
                   sLast>>

\* no scoring has run and the score tables are empty
ScoresInit ==
    /\ political_scores = {}
    /\ aggregate_scores = {}
    /\ sPipeline = "real"
    /\ sPc = "idle"
    /\ sPol = 1
    /\ sTopic = 1
    /\ calculatedScores = 0
    /\ politiciansScored = 0
    /\ sErrors = <<>>
    /\ sRuns = 0
    /\ sResult = NoScoreResult
    /\ sLast = NoPair

\* the store a scoring call finds, but for the topic scores: one legislator,
\* the bills of the pool as either pipeline stores them, and up to MaxRecords
\* voting records
ScoringStore ==
    /\ \E id \in BioguideIds :
         /\ politicians = {[congress_id |-> id, chamber |-> "house", n |-> 1]}
         /\ voting_records \in RecordStores(id)
    /\ sPipeline \in {"routes", "real"}
    /\ bills = ScoredBills(sPipeline)
    /\ bill_topics = ScoredBillTopics(sPipeline)
    /\ mPc = "idle"
    /\ mChamber = "SENATE"
    /\ mPage = 0
    /\ mHasMore = TRUE
    /\ mPageLeft = 0
    /\ syncedCount = 0
    /\ errorCount = 0
    /\ totalSynced = 0
    /\ mErrors = <<>>
    /\ mRuns = 0
    /\ mResult = NoResult
    /\ mLog = [kind |-> "", id |-> "", term |-> ""]
    /\ bPc = "idle"
    /\ bLeft = 0
    /\ billsSynced = 0
    /\ totalBills = 0
    /\ totalRecords = 0
    /\ bErrors = <<>>
    /\ bRuns = 0
    /\ bResult = NoBillResult
    /\ bLast = [path |-> "", congress_id |-> <<>>, step |-> "", calls |-> <<>>]
    /\ congressional_votes = {}
    /\ vPc = "idle"
    /\ vChamber = "house"
    /\ vLeft = 0
    /\ vMembersLeft = 0
    /\ vCur = NoCurrentVote
    /\ votesSynced = 0
    /\ recordsSynced = 0
    /\ vErrors = <<>>
    /\ vRuns = 0
    /\ vResult = NoVoteResult
    /\ vLast = NoMemberVote
    /\ aggregate_scores = {}
    /\ sPc = "idle"
    /\ sPol = 1
    /\ sTopic = 1
    /\ calculatedScores = 0
    /\ politiciansScored = 0
    /\ sErrors = <<>>
    /\ sRuns = 0
    /\ sResult = NoScoreResult
    /\ sLast = NoPair

\* the store of a first scoring call: no topic score yet
ScoredStore == ScoringStore /\ political_scores = {}

\* the rows a completed scoring call of the store's pipeline wrote when the
\* voting records were `earlier`
EarlierScores(earlier) ==
    {IF sPipeline = "routes"
     THEN calculateTopicScoreOn(earlier, r.congress_id, t)
     ELSE calculate_politician_score_on(earlier, r.congress_id, t) :
        r \in politicians, t \in {scoringTopics[i] : i \in DOMAIN scoringTopics}}

\* the store of a later scoring call: the topic scores were written by a
\* call made when the store held the same voting records, or none yet (the
\* aggregate of that call was not stored)
RescoredStore ==
    /\ ScoringStore
    /\ \E earlier \in {voting_records, {}} : political_scores = EarlierScores(earlier)

(***************************************************************************)
(* The orchestrators and the HTTP layer: RealVotingDataService.fullSync    *)
(* (politicians.ts) and the POST routes of routes/sync.ts.  A handler is   *)
(* followed from the request to the response; the stages it awaits are the *)
(* stage actions above.                                                    *)
(***************************************************************************)
NoSummary ==
    [bills |-> 0, houseVotes |-> 0, senateVotes |-> 0, totalRecords |-> 0,
     politiciansScored |-> 0]

NoResponse == [status |-> 0, success |-> FALSE, counts |-> <<>>, errors |-> <<>>]

\* no request has arrived
RoutesIdle ==
    /\ rRoute = ""
    /\ rPc = "idle"
    /\ calculateScores = TRUE
    /\ rErrors = <<>>
    /\ rStages = <<>>
    /\ summary = NoSummary
    /\ rResponse = NoResponse

\* `if (result.success) res.json(..) else res.status(207).json(..)`
routeStatus(success) == IF success THEN 200 ELSE 207

\* the handler sends its response
Respond(status, success, counts, errors) ==
    /\ rPc' = "done"
    /\ rResponse' = [status |-> status, success |-> success, counts |-> counts,
                     errors |-> errors]

\* the stage the handler awaited has returned `result`
Returned(stage, result) ==
    rStages' = Append(rStages, [stage |-> stage, result |-> result])

\* POST /politicians up to `await syncService.syncPoliticians()`
PostPoliticians ==
    /\ rPc = "idle"
    /\ rRoute' = "/politicians"
    /\ rPc' = "syncPoliticians"
    /\ StartSyncPoliticians
    /\ UNCHANGED <<calculateScores, rErrors, rStages, summary, rResponse>>

\* POST /politicians from the return of syncPoliticians on
RespondPoliticians ==
    /\ rRoute = "/politicians"
    /\ rPc = "syncPoliticians"
    /\ mPc = "idle"
    /\ Returned("syncPoliticians", mResult)
    /\ Respond(routeStatus(mResult.success), mResult.success,
               <<mResult.totalSynced>>, mResult.errors)
    /\ UNCHANGED <<rRoute, calculateScores, rErrors, summary>>

\* POST /voting-records up to `await votingRecordsService.syncVotingRecords(..)`
PostVotingRecords ==
    /\ rPc = "idle"
    /\ sPipeline = "routes"
    /\ rRoute' = "/voting-records"
    /\ rPc' = "syncVotingRecords"
    /\ StartSyncVotingRecords
    /\ UNCHANGED <<calculateScores, rErrors, rStages, summary, rResponse>>

\* POST /voting-records from the return of syncVotingRecords on
RespondVotingRecords ==
    /\ rRoute = "/voting-records"
    /\ rPc = "syncVotingRecords"
    /\ bPc = "idle"
    /\ Returned("syncVotingRecords", bResult)
    /\ Respond(routeStatus(bResult.success), bResult.success,
               <<bResult.count, bResult.records>>, bResult.errors)
    /\ UNCHANGED <<rRoute, calculateScores, rErrors, summary>>

\* POST /calculate-scores up to
\* `await politicalScoringService.calculatePoliticalScores()`
PostCalculateScores ==
    /\ rPc = "idle"
    /\ rRoute' = "/calculate-scores"
    /\ rPc' = "calculatePoliticalScores"
    /\ StartCalculatePoliticalScores
    /\ UNCHANGED <<calculateScores, rErrors, rStages, summary, rResponse>>

\* POST /calculate-scores from the return of calculatePoliticalScores on
RespondCalculateScores ==
    /\ rRoute = "/calculate-scores"
    /\ rPc = "calculatePoliticalScores"
    /\ sPc = "idle"
    /\ Returned("calculatePoliticalScores", sResult)
    /\ Respond(routeStatus(sResult.success), sResult.success,
               <<sResult.count>>, sResult.errors)
    /\ UNCHANGED <<rRoute, calculateScores, rErrors, summary>>

\* one message stands for the errors of a stage
pushErrorSummary(errors, result) ==
    IF result.errors = <<>> THEN errors ELSE Append(errors, "Stage failed")

\* `errors.push(...result.errors)` of fullSync
pushErrors(errors, result) == errors \o result.errors

\* a run succeeds only without any error
fullSyncSuccessStrict(errors) == Len(errors) = 0

\* `success: errors.length < 10, // Allow some errors but not too many`
fullSyncSuccess(errors) == Len(errors) < 10

\* an orchestrator that takes the Senate before the House
fullSyncNextSenateFirst(stage, result, withScores) ==
    IF stage = "syncBills" THEN "syncVotes senate"
    ELSE IF stage = "syncVotes senate" THEN "syncVotes house"
    ELSE IF stage = "syncVotes house" /\ withScores
    THEN "calculateRealPoliticalScores"
    ELSE "return"

\* an orchestrator that gives up at the first failed stage
fullSyncNextUnlessFailed(stage, result, withScores) ==
    IF ~result.success THEN "return"
    ELSE IF stage = "syncBills" THEN "syncVotes house"
    ELSE IF stage = "syncVotes house" THEN "syncVotes senate"
    ELSE IF stage = "syncVotes senate" /\ withScores
    THEN "calculateRealPoliticalScores"
    ELSE "return"

\* what fullSync does once `stage` has returned `result`: the next step of
\* its body, whatever the result was
fullSyncNext(stage, result, withScores) ==
    IF stage = "syncBills" THEN "syncVotes house"
    ELSE IF stage = "syncVotes house" THEN "syncVotes senate"
    ELSE IF stage = "syncVotes senate" /\ withScores
    THEN "calculateRealPoliticalScores"
    ELSE "return"

\* fullSync calls its next stage, or returns and POST /voting-data responds
FullSyncContinue(next, errors, newSummary) ==
    IF next = "syncVotes house"
    THEN /\ rPc' = next
         /\ StartSyncVotes
         /\ vChamber' = "house"
         /\ UNCHANGED <<billVars, scoreVars, rResponse>>
    ELSE IF next = "syncVotes senate"
    THEN /\ rPc' = next
         /\ StartSyncVotes
         /\ vChamber' = "senate"
         /\ UNCHANGED <<billVars, scoreVars, rResponse>>
    ELSE IF next = "calculateRealPoliticalScores"
    THEN /\ rPc' = next
         /\ StartCalculateRealPoliticalScores
         /\ UNCHANGED <<billVars, voteVars, rResponse>>
    ELSE /\ Respond(routeStatus(fullSyncSuccess(errors)), fullSyncSuccess(errors),
                    <<newSummary.bills, newSummary.houseVotes, newSummary.senateVotes,
                      newSummary.totalRecords, newSummary.politiciansScored>>,
                    errors)
         /\ UNCHANGED <<billVars, voteVars, scoreVars>>

\* the step of fullSync after `await` of a stage: summary and errors are
\* updated, then the body goes on
FullSyncStep(stage, result, newSummary) ==
    /\ rRoute = "/voting-data"
    /\ rPc = stage
    /\ Returned(stage, result)
    /\ summary' = newSummary
    /\ rErrors' = pushErrors(rErrors, result)
    /\ FullSyncContinue(fullSyncNext(stage, result, calculateScores),
                        pushErrors(rErrors, result), newSummary)
    /\ UNCHANGED <<rRoute, calculateScores>>

\* POST /voting-data up to `await this.syncBills(congress, billLimit)` of
\* fullSync
PostVotingData ==
    /\ rPc = "idle"
    /\ sPipeline = "real"
    /\ rRoute' = "/voting-data"
    /\ calculateScores' \in BOOLEAN
    /\ rPc' = "syncBills"
    /\ StartSyncBills
    /\ UNCHANGED <<rErrors, rStages, summary, rResponse>>

\* Step 1 of fullSync has returned
FullSyncBillsReturned ==
    /\ bPc = "idle"
    /\ FullSyncStep("syncBills", bResult, [summary EXCEPT !.bills = bResult.count])

\* Step 2 of fullSync has returned
FullSyncHouseReturned ==
    /\ vPc = "idle"
    /\ FullSyncStep("syncVotes house", vResult,
                    [summary EXCEPT !.houseVotes = vResult.votesSynced,
                                    !.totalRecords = @ + vResult.recordsSynced])

\* Step 3 of fullSync has returned
FullSyncSenateReturned ==
    /\ vPc = "idle"
    /\ FullSyncStep("syncVotes senate", vResult,
                    [summary EXCEPT !.senateVotes = vResult.votesSynced,
                                    !.totalRecords = @ + vResult.recordsSynced])

\* Step 4 of fullSync has returned
FullSyncScoresReturned ==
    /\ sPc = "idle"
    /\ FullSyncStep("calculateRealPoliticalScores", sResult,
                    [summary EXCEPT !.politiciansScored = sResult.count])

\* `if (!result.success) results.errors.push(message)` of POST /full-sync
pushSummary(errors, result, message) ==
    IF result.success THEN errors ELSE Append(errors, message)

\* POST /full-sync up to `await syncService.syncPoliticians()`
PostFullSync ==
    /\ rPc = "idle"
    /\ sPipeline = "routes"
    /\ rRoute' = "/full-sync"
    /\ rPc' = "syncPoliticians"
    /\ StartSyncPoliticians
    /\ UNCHANGED <<calculateScores, rErrors, rStages, summary, rResponse>>

\* Step 1 of POST /full-sync has returned; Step 2 is called
RouteFullSyncPoliticiansReturned ==
    /\ rRoute = "/full-sync"
    /\ rPc = "syncPoliticians"
    /\ mPc = "idle"
    /\ Returned("syncPoliticians", mResult)
    /\ rErrors' = pushSummary(rErrors, mResult, "Politicians sync failed")
    /\ rPc' = "syncVotingRecords"
    /\ StartSyncVotingRecords
    /\ UNCHANGED <<rRoute, calculateScores, summary, rResponse>>

\* Step 2 of POST /full-sync has returned; Step 3 is called
RouteFullSyncVotingRecordsReturned ==
    /\ rRoute = "/full-sync"
    /\ rPc = "syncVotingRecords"
    /\ bPc = "idle"
    /\ Returned("syncVotingRecords", bResult)
    /\ rErrors' = pushSummary(rErrors, bResult, "Voting records sync failed")
    /\ rPc' = "calculatePoliticalScores"
    /\ StartCalculatePoliticalScores
    /\ UNCHANGED <<rRoute, calculateScores, summary, rResponse>>

\* Step 3 of POST /full-sync has returned; the route responds with res.json
RouteFullSyncScoresReturned ==
    /\ rRoute = "/full-sync"
    /\ rPc = "calculatePoliticalScores"
    /\ sPc = "idle"
    /\ Returned("calculatePoliticalScores", sResult)
    /\ rErrors' = pushSummary(rErrors, sResult, "Score calculation failed")
    /\ Respond(200, Len(rErrors') = 0,
               <<rStages[1].result.totalSynced, rStages[2].result.count,
                 rStages[2].result.records, sResult.count>>,
               rErrors')
    /\ UNCHANGED <<rRoute, calculateScores, summary>>

(***************************************************************************)
(* EnhancedCongressService: syncAllCurrentMembers / syncChamberMembers.    *)
(* An upstream page has eRaw records; getCurrentMembers keeps those with a *)
(* current term in the chamber, and turns a failed request into an empty   *)
(* page with hasMore = false.                                              *)
(***************************************************************************)
Congresses == {117, 118}

NoEnhancedResult ==
    [success |-> FALSE, houseMembers |-> 0 - 1, senateMembers |-> 0 - 1,
     totalMembers |-> 0 - 1, errors |-> <<>>]

\* supabase.from('politicians').upsert(row, {onConflict: 'congress_id'})
UpsertPolitician(row) ==
    {r \in ePoliticians : r.congress_id # row.congress_id} \cup {row}

\* cleanupInactiveMembers: every row of another congress is marked inactive
cleanupInactiveMembers(congress) ==
    {IF r.current_congress # congress THEN [r EXCEPT !.is_current = FALSE] ELSE r :
        r \in ePoliticians}

\* syncAllCurrentMembers up to the first call of syncChamberMembers
StartSyncAllCurrentMembers ==
    /\ ePc = "idle"
    /\ eRuns < MaxRuns
    /\ eRuns' = eRuns + 1
    /\ \E congress \in Congresses, up \in BOOLEAN :
         /\ eCongress' = congress
         /\ eApiUp' = up
    /\ ePc' = "fetch"
    /\ eChamber' = "house"
    /\ eOffset' = 0
    /\ eRaw' = 0
    /\ eFetched' = 0
    /\ eHasMore' = FALSE
    /\ eLeft' = 0
    /\ eCount' = 0
    /\ houseMembers' = 0
    /\ eErrors' = <<>>
    /\ eResult' = NoEnhancedResult
    /\ UNCHANGED ePoliticians

\* getCurrentMembers({limit, offset}) at the head of the do-while body
FetchChamberPage ==
    /\ ePc = "fetch"
    /\ \E ok \in BOOLEAN, n \in 0..PageLimit, next \in BOOLEAN :
         \E k \in 0..n :
            /\ ok => eApiUp
            /\ ~ok => (n = 0 /\ ~next)
            /\ (ok /\ next /\ k = PageLimit) => eOffset + PageLimit < MaxPages * PageLimit
            /\ eRaw' = n
            /\ eFetched' = k
            /\ eLeft' = k
            /\ eHasMore' = (ok /\ next)
    /\ ePc' = "members"
    /\ UNCHANGED <<ePoliticians, eChamber, eCongress, eApiUp, eOffset, eCount,
                   houseMembers, eErrors, eRuns, eResult>>

\* one iteration of `for (const member of members)`: getMemberDetails, then
\* createOrUpdatePolitician
SyncChamberMember ==
    /\ ePc = "members"
    /\ eLeft > 0
    /\ eLeft' = eLeft - 1
    /\ \E id \in BioguideIds, db \in {"ok", "error"}, current \in BOOLEAN :
         IF db = "ok"
         THEN /\ ePoliticians' = UpsertPolitician([congress_id |-> id,
                                                   chamber |-> eChamber,
                                                   current_congress |-> eCongress,
                                                   is_current |-> current])
              /\ eCount' = eCount + 1
              /\ eErrors' = eErrors
         ELSE /\ eErrors' = Append(eErrors, "Failed to sync")
              /\ UNCHANGED <<ePoliticians, eCount>>
    /\ UNCHANGED <<ePc, eChamber, eCongress, eApiUp, eOffset, eRaw, eFetched,
                   eHasMore, houseMembers, eRuns, eResult>>

\* the end of the do-while body: offset += limit, then the break test; after
\* the Senate, syncAllCurrentMembers cleans up and returns
EndChamberPage ==
    /\ ePc = "members"
    /\ eLeft = 0
    /\ eOffset' = IF ~eHasMore \/ eFetched < PageLimit THEN 0 ELSE eOffset + PageLimit
    /\ UNCHANGED <<eCongress, eApiUp, eErrors, eRuns>>
    /\ IF ~eHasMore \/ eFetched < PageLimit
       THEN /\ eRaw' = 0
            /\ eFetched' = 0
            /\ eHasMore' = FALSE
            /\ eLeft' = 0
            /\ eCount' = 0
            /\ IF eChamber = "house"
               THEN /\ houseMembers' = eCount
                    /\ eChamber' = "senate"
                    /\ ePc' = "fetch"
                    /\ UNCHANGED <<ePoliticians, eResult>>
               ELSE /\ \E db \in {"ok", "error"} :
                         ePoliticians' = IF db = "ok"
                                         THEN cleanupInactiveMembers(eCongress)
                                         ELSE ePoliticians
                    /\ eResult' = [success       |-> Len(eErrors) = 0,
                                   houseMembers  |-> houseMembers,
                                   senateMembers |-> eCount,
                                   totalMembers  |-> houseMembers + eCount,
                                   errors        |-> eErrors]
                    /\ ePc' = "idle"
                    /\ UNCHANGED <<eChamber, houseMembers>>
       ELSE /\ ePc' = "fetch"
            /\ UNCHANGED <<ePoliticians, eChamber, eRaw, eFetched, eHasMore, eLeft,
                           eCount, houseMembers, eResult>>

\* no syncAllCurrentMembers call has been made and the table is empty
EnhancedIdle ==
    /\ ePoliticians = {}
    /\ ePc = "idle"
    /\ eChamber = "house"
    /\ eCongress = 118
    /\ eApiUp = TRUE
    /\ eOffset = 0
    /\ eRaw = 0
    /\ eFetched = 0
    /\ eHasMore = FALSE
    /\ eLeft = 0
    /\ eCount = 0
    /\ houseMembers = 0
    /\ eErrors = <<>>
    /\ eRuns = 0
    /\ eResult = NoEnhancedResult

\* no sync stage has used the external API yet
PaceIdle ==
    /\ pace = "none"
    /\ unpaced = FALSE

(***************************************************************************)
(* Requests to the external API and the setTimeout delays between them.    *)
(* Each step of a sync stage issues the events below, in order.            *)
(***************************************************************************)
\* two requests follow each other in the events, the last event before them
\* included
RequestsInARow(last, events) ==
    LET all == <<last>> \o events
    IN  \E i \in 1..(Len(all) - 1) : all[i] = "request" /\ all[i + 1] = "request"

\* the stage issues the events
Issue(events) ==
    /\ pace' = IF events = <<>> THEN pace ELSE events[Len(events)]
    /\ unpaced' = (unpaced \/ RequestsInARow(pace, events))

\* a stage is entered and fetches its listing (or its first page)
IssueFirst(events) ==
    /\ pace' = events[Len(events)]
    /\ unpaced' = (unpaced \/ RequestsInARow("none", events))

\* syncMembersFromChamber: the 25 ms delay ends the try body of a record that
\* reached the insert; `continue` and the catch pass it by
ProcessMemberEvents ==
    IF mLog'.kind \in {"Successfully synced", "Skipping duplicate",
                       "Error inserting politician"}
    THEN <<"delay">> ELSE <<>>

\* syncBills: the detail fetch, and the 100 ms delay at the end of the try
\* body; `continue` (no detail) and the catch pass it by
SyncBillsRecordEvents ==
    IF bLast'.step \in {"error", "no detail"}
    THEN <<"request">> ELSE <<"request", "delay">>

\* syncVotingRecords: the detail fetch, the actions fetch of a bill that
\* syncBill returned an id for, and the 200 ms delay at the end of the try
\* body; both `continue` and the catch pass it by
SyncVotingRecordsBillEvents(actions) ==
    IF bLast'.step \in {"error", "no detail", "insert failed"}
    THEN <<"request">>
    ELSE IF actions THEN <<"request", "request", "delay">>
    ELSE <<"request", "delay">>

\* syncVotes: the detail fetch; the 200 ms delay comes after the member loop
SyncVoteEvents ==
    IF vCur'.stored = "" \/ vPc' = "members"
    THEN <<"request">> ELSE <<"request", "delay">>

SyncMemberVoteEvents ==
    IF vPc' = "votes" THEN <<"delay">> ELSE <<>>

(***************************************************************************)
(* Two RealVotingDataService.syncVotes calls against one store.  Each      *)
(* existence check and each write is one request to the store, so the      *)
(* requests of two calls interleave; the store answers every request.      *)
(***************************************************************************)
Instances == {1, 2}

NoRaceRecord ==
    [politician_id |-> "", bill_id |-> NoBill, vote |-> "", vote_date |-> 0,
     congressional_vote_id |-> <<>>]

NoRaceVote ==
    [congress |-> "", chamber |-> "", session |-> 0, roll_call |-> 0,
     bill_id |-> NoBill, vote_date |-> 0]

RaceIdle ==
    /\ iPc = [i \in Instances |-> "idle"]
    /\ iVote = [i \in Instances |-> NoRaceVote]
    /\ iRecord = [i \in Instances |-> NoRaceRecord]
    /\ iFound = [i \in Instances |-> FALSE]

\* the congressional_votes rows under the unique key of a row
VoteRows(data) ==
    {r \in congressional_votes :
        r.congress = data.congress /\ VoteId(r) = VoteId(data)}

\* the bill lookup and the select on congressional_votes
RaceSelectVote(i) ==
    /\ iPc[i] = "idle"
    /\ \E vote \in UpstreamVotes("house") :
         LET bill   == IF vote.bill # "none"
                       THEN SelectBill(<<vote.bill>>, vote.congress) ELSE {}
             billId == IF Cardinality(bill) = 1 THEN <<vote.bill>> ELSE NoBill
         IN  /\ iVote' = [iVote EXCEPT ![i] = voteData(vote, billId)]
             /\ iFound' = [iFound EXCEPT ![i] = SelectCongressionalVote(vote) # {}]
    /\ iPc' = [iPc EXCEPT ![i] = "vote selected"]
    /\ UNCHANGED <<iRecord, congressional_votes, voting_records>>

\* `if (existingVote) update else insert`; an insert refused by
\* UNIQUE(congress, chamber, session, roll_call) leaves newVote null and
\* newVote!.id throws into the catch of the vote
RaceWriteVote(i) ==
    /\ iPc[i] = "vote selected"
    /\ UNCHANGED <<iVote, iRecord, iFound, voting_records>>
    /\ IF iFound[i]
       THEN /\ congressional_votes' =
                 (congressional_votes \ VoteRows(iVote[i])) \cup {iVote[i]}
            /\ iPc' = [iPc EXCEPT ![i] = "select record"]
       ELSE IF VoteRows(iVote[i]) # {}
       THEN /\ congressional_votes' = congressional_votes
            /\ iPc' = [iPc EXCEPT ![i] = "failed"]
       ELSE /\ congressional_votes' = congressional_votes \cup {iVote[i]}
            /\ iPc' = [iPc EXCEPT ![i] = "select record"]

\* the politician lookup, `if (politician && billId)` and the select on
\* voting_records, for one member vote
RaceSelectRecord(i) ==
    /\ iPc[i] = "select record"
    /\ UNCHANGED <<iVote, congressional_votes, voting_records>>
    /\ \E memberVote \in MemberVotes :
         IF ~recordable(PoliticianRows(memberVote.bioguideId), iVote[i].bill_id)
         THEN /\ iPc' = [iPc EXCEPT ![i] = "done"]
              /\ UNCHANGED <<iRecord, iFound>>
         ELSE /\ iRecord' = [iRecord EXCEPT ![i] =
                    [politician_id |-> memberVote.bioguideId,
                     bill_id |-> iVote[i].bill_id, vote |-> memberVote.vote,
                     vote_date |-> iVote[i].vote_date,
                     congressional_vote_id |-> VoteId(iVote[i])]]
              /\ iFound' = [iFound EXCEPT ![i] =
                    SelectVotingRecord(memberVote.bioguideId, iVote[i].bill_id,
                                       VoteId(iVote[i])) # {}]
              /\ iPc' = [iPc EXCEPT ![i] = "record selected"]

\* `if (!existingRecord) insert`
RaceWriteRecord(i) ==
    /\ iPc[i] = "record selected"
    /\ iPc' = [iPc EXCEPT ![i] = "done"]
    /\ voting_records' = IF iFound[i] THEN voting_records
                         ELSE InsertVotingRecord(iRecord[i])
    /\ UNCHANGED <<iVote, iRecord, iFound, congressional_votes>>

(***************************************************************************)
(* Specifications: one per stage.                                          *)
(***************************************************************************)
MembersNext ==
    \/ StartSyncPoliticians /\ UNCHANGED <<polarityVars, billVars, voteVars, scoreVars, routeVars, confidenceVars, enhancedVars, paceVars, raceVars>>
    \/ FetchMembersPage /\ UNCHANGED <<polarityVars, billVars, voteVars, scoreVars, routeVars, confidenceVars, enhancedVars, paceVars, raceVars>>
    \/ ProcessMember /\ UNCHANGED <<polarityVars, billVars, voteVars, scoreVars, routeVars, confidenceVars, enhancedVars, paceVars, raceVars>>
    \/ EndMembersPage /\ UNCHANGED <<polarityVars, billVars, voteVars, scoreVars, routeVars, confidenceVars, enhancedVars, paceVars, raceVars>>

InitMembers == MembersInit /\ PolarityIdle /\ BillsInit /\ VotesInit /\ ScoresInit /\ RoutesIdle /\ ConfidenceIdle /\ EnhancedIdle /\ PaceIdle /\ RaceIdle

SpecMembers == InitMembers /\ [][MembersNext]_vars

PolarityNext ==
    \/ ScoreBill /\ UNCHANGED <<memberVars, billVars, voteVars, scoreVars, routeVars, confidenceVars, enhancedVars, paceVars, raceVars>>

InitPolarity == MembersInit /\ PolarityInit /\ BillsInit /\ VotesInit /\ ScoresInit /\ RoutesIdle /\ ConfidenceIdle /\ EnhancedIdle /\ PaceIdle /\ RaceIdle

SpecPolarity == InitPolarity /\ [][PolarityNext]_vars

BillsNext ==
    \/ StartSyncBills /\ UNCHANGED <<memberVars, polarityVars, voteVars, scoreVars, routeVars, confidenceVars, enhancedVars, paceVars, raceVars>>
    \/ SyncBillsRecord /\ UNCHANGED <<memberVars, polarityVars, voteVars, scoreVars, routeVars, confidenceVars, enhancedVars, paceVars, raceVars>>
    \/ EndSyncBills /\ UNCHANGED <<memberVars, polarityVars, voteVars, scoreVars, routeVars, confidenceVars, enhancedVars, paceVars, raceVars>>
    \/ StartSyncVotingRecords /\ UNCHANGED <<memberVars, polarityVars, voteVars, scoreVars, routeVars, confidenceVars, enhancedVars, paceVars, raceVars>>
    \/ SyncVotingRecordsBill /\ UNCHANGED <<memberVars, polarityVars, voteVars, scoreVars, routeVars, confidenceVars, enhancedVars, paceVars, raceVars>>
    \/ EndSyncVotingRecords /\ UNCHANGED <<memberVars, polarityVars, voteVars, scoreVars, routeVars, confidenceVars, enhancedVars, paceVars, raceVars>>

InitBills == MembersInit /\ PolarityIdle /\ BillsInit /\ VotesInit /\ ScoresInit /\ RoutesIdle /\ ConfidenceIdle /\ EnhancedIdle /\ PaceIdle /\ RaceIdle

SpecBills == InitBills /\ [][BillsNext]_vars

VotesNext ==
    \/ StartSyncVotes /\ UNCHANGED <<memberVars, polarityVars, billVars, scoreVars, routeVars, confidenceVars, enhancedVars, paceVars, raceVars>>
    \/ SyncVote /\ UNCHANGED <<memberVars, polarityVars, billVars, scoreVars, routeVars, confidenceVars, enhancedVars, paceVars, raceVars>>
    \/ SyncMemberVote /\ UNCHANGED <<memberVars, polarityVars, billVars, scoreVars, routeVars, confidenceVars, enhancedVars, paceVars, raceVars>>
    \/ EndSyncVotes /\ UNCHANGED <<memberVars, polarityVars, billVars, scoreVars, routeVars, confidenceVars, enhancedVars, paceVars, raceVars>>

InitVotes == MembersSynced /\ PolarityIdle /\ BillsSynced /\ VotesInit /\ ScoresInit /\ RoutesIdle /\ ConfidenceIdle /\ EnhancedIdle /\ PaceIdle /\ RaceIdle

SpecVotes == InitVotes /\ [][VotesNext]_vars

ScoringNext ==
    \/ StartCalculatePoliticalScores /\ UNCHANGED <<memberVars, polarityVars, billVars, voteVars, routeVars, confidenceVars, enhancedVars, paceVars, raceVars>>
    \/ ScorePair /\ UNCHANGED <<memberVars, polarityVars, billVars, voteVars, routeVars, confidenceVars, enhancedVars, paceVars, raceVars>>
    \/ EndCalculatePoliticalScores /\ UNCHANGED <<memberVars, polarityVars, billVars, voteVars, routeVars, confidenceVars, enhancedVars, paceVars, raceVars>>
    \/ StartCalculateRealPoliticalScores /\ UNCHANGED <<memberVars, polarityVars, billVars, voteVars, routeVars, confidenceVars, enhancedVars, paceVars, raceVars>>
    \/ RealScorePair /\ UNCHANGED <<memberVars, polarityVars, billVars, voteVars, routeVars, confidenceVars, enhancedVars, paceVars, raceVars>>
    \/ RealAggregate /\ UNCHANGED <<memberVars, polarityVars, billVars, voteVars, routeVars, confidenceVars, enhancedVars, paceVars, raceVars>>
    \/ EndCalculateRealPoliticalScores /\ UNCHANGED <<memberVars, polarityVars, billVars, voteVars, routeVars, confidenceVars, enhancedVars, paceVars, raceVars>>

InitScoring == ScoredStore /\ PolarityIdle /\ RoutesIdle /\ ConfidenceIdle /\ EnhancedIdle /\ PaceIdle /\ RaceIdle

SpecScoring == InitScoring /\ [][ScoringNext]_vars

InitRescoring == RescoredStore /\ PolarityIdle /\ RoutesIdle /\ ConfidenceIdle /\ EnhancedIdle /\ PaceIdle /\ RaceIdle

SpecRescoring == InitRescoring /\ [][ScoringNext]_vars

\* the store a request finds: legislator A001, no bills, no votes, no scores
RoutesStore ==
    /\ MembersSynced
    /\ BillsInit
    /\ VotesInit
    /\ political_scores = {}
    /\ aggregate_scores = {}
    /\ sPipeline \in {"routes", "real"}
    /\ sPc = "idle"
    /\ sPol = 1
    /\ sTopic = 1
    /\ calculatedScores = 0
    /\ politiciansScored = 0
    /\ sErrors = <<>>
    /\ sRuns = 0
    /\ sResult = NoScoreResult
    /\ sLast = NoPair

\* a stage runs only while a handler awaits it
Awaited == rPc \notin {"idle", "done"}

\* what the upstream API serves during a request: one House bill with the
\* health text, and roll call 1 of date 1 in either chamber with at most one
\* member vote
RoutesUpstream ==
    /\ bLast.congress_id \in {<<>>, <<"1">>, <<"118", "HR", "1">>}
    /\ \A r \in bills : r.title = TextHealth.title /\ r.summary = TextHealth.summary
    /\ \A r \in congressional_votes : r.roll_call = 1 /\ r.vote_date = 1
    /\ vMembersLeft <= 1

RoutesNext ==
    \/ PostPoliticians /\ UNCHANGED <<polarityVars, billVars, voteVars, scoreVars, confidenceVars, enhancedVars, paceVars, raceVars>>
    \/ RespondPoliticians /\ UNCHANGED <<memberVars, polarityVars, billVars, voteVars, scoreVars, confidenceVars, enhancedVars, paceVars, raceVars>>
    \/ PostVotingRecords /\ UNCHANGED <<memberVars, polarityVars, voteVars, scoreVars, confidenceVars, enhancedVars, paceVars, raceVars>>
    \/ RespondVotingRecords /\ UNCHANGED <<memberVars, polarityVars, billVars, voteVars, scoreVars, confidenceVars, enhancedVars, paceVars, raceVars>>
    \/ PostCalculateScores /\ UNCHANGED <<memberVars, polarityVars, billVars, voteVars, confidenceVars, enhancedVars, paceVars, raceVars>>
    \/ RespondCalculateScores /\ UNCHANGED <<memberVars, polarityVars, billVars, voteVars, scoreVars, confidenceVars, enhancedVars, paceVars, raceVars>>
    \/ PostVotingData /\ UNCHANGED <<memberVars, polarityVars, voteVars, scoreVars, confidenceVars, enhancedVars, paceVars, raceVars>>
    \/ FullSyncBillsReturned /\ UNCHANGED <<memberVars, polarityVars, confidenceVars, enhancedVars, paceVars, raceVars>>
    \/ FullSyncHouseReturned /\ UNCHANGED <<memberVars, polarityVars, confidenceVars, enhancedVars, paceVars, raceVars>>
    \/ FullSyncSenateReturned /\ UNCHANGED <<memberVars, polarityVars, confidenceVars, enhancedVars, paceVars, raceVars>>
    \/ FullSyncScoresReturned /\ UNCHANGED <<memberVars, polarityVars, confidenceVars, enhancedVars, paceVars, raceVars>>
    \/ PostFullSync /\ UNCHANGED <<polarityVars, billVars, voteVars, scoreVars, confidenceVars, enhancedVars, paceVars, raceVars>>
    \/ RouteFullSyncPoliticiansReturned /\ UNCHANGED <<memberVars, polarityVars, voteVars, scoreVars, confidenceVars, enhancedVars, paceVars, raceVars>>
    \/ RouteFullSyncVotingRecordsReturned /\ UNCHANGED <<memberVars, polarityVars, billVars, voteVars, confidenceVars, enhancedVars, paceVars, raceVars>>
    \/ RouteFullSyncScoresReturned /\ UNCHANGED <<memberVars, polarityVars, billVars, voteVars, scoreVars, confidenceVars, enhancedVars, paceVars, raceVars>>
    \/ Awaited /\ FetchMembersPage /\ UNCHANGED <<polarityVars, billVars, voteVars, scoreVars, routeVars, confidenceVars, enhancedVars, paceVars, raceVars>>
    \/ Awaited /\ ProcessMember /\ UNCHANGED <<polarityVars, billVars, voteVars, scoreVars, routeVars, confidenceVars, enhancedVars, paceVars, raceVars>>
    \/ Awaited /\ EndMembersPage /\ UNCHANGED <<polarityVars, billVars, voteVars, scoreVars, routeVars, confidenceVars, enhancedVars, paceVars, raceVars>>
    \/ Awaited /\ SyncBillsRecord /\ UNCHANGED <<memberVars, polarityVars, voteVars, scoreVars, routeVars, confidenceVars, enhancedVars, paceVars, raceVars>> /\ RoutesUpstream'
    \/ Awaited /\ EndSyncBills /\ UNCHANGED <<memberVars, polarityVars, voteVars, scoreVars, routeVars, confidenceVars, enhancedVars, paceVars, raceVars>>
    \/ Awaited /\ SyncVotingRecordsBill /\ UNCHANGED <<memberVars, polarityVars, voteVars, scoreVars, routeVars, confidenceVars, enhancedVars, paceVars, raceVars>> /\ RoutesUpstream'
    \/ Awaited /\ EndSyncVotingRecords /\ UNCHANGED <<memberVars, polarityVars, voteVars, scoreVars, routeVars, confidenceVars, enhancedVars, paceVars, raceVars>>
    \/ Awaited /\ SyncVote /\ UNCHANGED <<memberVars, polarityVars, billVars, scoreVars, routeVars, confidenceVars, enhancedVars, paceVars, raceVars>> /\ RoutesUpstream'
    \/ Awaited /\ SyncMemberVote /\ UNCHANGED <<memberVars, polarityVars, billVars, scoreVars, routeVars, confidenceVars, enhancedVars, paceVars, raceVars>>
    \/ Awaited /\ EndSyncVotes /\ UNCHANGED <<memberVars, polarityVars, billVars, scoreVars, routeVars, confidenceVars, enhancedVars, paceVars, raceVars>>
    \/ Awaited /\ ScorePair /\ UNCHANGED <<memberVars, polarityVars, billVars, voteVars, routeVars, confidenceVars, enhancedVars, paceVars, raceVars>>
    \/ Awaited /\ EndCalculatePoliticalScores /\ UNCHANGED <<memberVars, polarityVars, billVars, voteVars, routeVars, confidenceVars, enhancedVars, paceVars, raceVars>>
    \/ Awaited /\ RealScorePair /\ UNCHANGED <<memberVars, polarityVars, billVars, voteVars, routeVars, confidenceVars, enhancedVars, paceVars, raceVars>>
    \/ Awaited /\ RealAggregate /\ UNCHANGED <<memberVars, polarityVars, billVars, voteVars, routeVars, confidenceVars, enhancedVars, paceVars, raceVars>>
    \/ Awaited /\ EndCalculateRealPoliticalScores /\ UNCHANGED <<memberVars, polarityVars, billVars, voteVars, routeVars, confidenceVars, enhancedVars, paceVars, raceVars>>

InitRoutes == RoutesStore /\ PolarityIdle /\ RoutesIdle /\ ConfidenceIdle /\ EnhancedIdle /\ PaceIdle /\ RaceIdle

SpecRoutes == InitRoutes /\ [][RoutesNext]_vars

ConfidenceNext ==
    \/ ComputeConfidence /\ UNCHANGED <<memberVars, polarityVars, billVars, voteVars, scoreVars, routeVars, enhancedVars, paceVars, raceVars>>
    \/ RecomputeConfidence /\ UNCHANGED <<memberVars, polarityVars, billVars, voteVars, scoreVars, routeVars, enhancedVars, paceVars, raceVars>>

InitConfidence ==
    MembersInit /\ PolarityIdle /\ BillsInit /\ VotesInit /\ ScoresInit /\ RoutesIdle /\ ConfidenceInit /\ EnhancedIdle /\ PaceIdle /\ RaceIdle

SpecConfidence == InitConfidence /\ [][ConfidenceNext]_vars

EnhancedNext ==
    \/ StartSyncAllCurrentMembers /\ UNCHANGED <<memberVars, polarityVars, billVars, voteVars, scoreVars, routeVars, confidenceVars, paceVars, raceVars>>
    \/ FetchChamberPage /\ UNCHANGED <<memberVars, polarityVars, billVars, voteVars, scoreVars, routeVars, confidenceVars, paceVars, raceVars>>
    \/ SyncChamberMember /\ UNCHANGED <<memberVars, polarityVars, billVars, voteVars, scoreVars, routeVars, confidenceVars, paceVars, raceVars>>
    \/ EndChamberPage /\ UNCHANGED <<memberVars, polarityVars, billVars, voteVars, scoreVars, routeVars, confidenceVars, paceVars, raceVars>>

InitEnhanced == MembersInit /\ PolarityIdle /\ BillsInit /\ VotesInit /\ ScoresInit /\ RoutesIdle /\ ConfidenceIdle /\ EnhancedIdle /\ PaceIdle /\ RaceIdle

SpecEnhanced == InitEnhanced /\ [][EnhancedNext]_vars

\* one call of either legislator sync, run to its end: every step that is
\* enabled is eventually taken, since each is one awaited call of a
\* sequential async function
PagingNext ==
    \/ mRuns = 0 /\ eRuns = 0 /\ StartSyncPoliticians /\ UNCHANGED <<polarityVars, billVars, voteVars, scoreVars, routeVars, confidenceVars, enhancedVars, paceVars, raceVars>>
    \/ FetchMembersPage /\ UNCHANGED <<polarityVars, billVars, voteVars, scoreVars, routeVars, confidenceVars, enhancedVars, paceVars, raceVars>>
    \/ ProcessMember /\ UNCHANGED <<polarityVars, billVars, voteVars, scoreVars, routeVars, confidenceVars, enhancedVars, paceVars, raceVars>>
    \/ EndMembersPage /\ UNCHANGED <<polarityVars, billVars, voteVars, scoreVars, routeVars, confidenceVars, enhancedVars, paceVars, raceVars>>
    \/ mRuns = 0 /\ eRuns = 0 /\ StartSyncAllCurrentMembers /\ UNCHANGED <<memberVars, polarityVars, billVars, voteVars, scoreVars, routeVars, confidenceVars, paceVars, raceVars>>
    \/ FetchChamberPage /\ UNCHANGED <<memberVars, polarityVars, billVars, voteVars, scoreVars, routeVars, confidenceVars, paceVars, raceVars>>
    \/ SyncChamberMember /\ UNCHANGED <<memberVars, polarityVars, billVars, voteVars, scoreVars, routeVars, confidenceVars, paceVars, raceVars>>
    \/ EndChamberPage /\ UNCHANGED <<memberVars, polarityVars, billVars, voteVars, scoreVars, routeVars, confidenceVars, paceVars, raceVars>>

InitPaging == MembersInit /\ PolarityIdle /\ BillsInit /\ VotesInit /\ ScoresInit /\ RoutesIdle /\ ConfidenceIdle /\ EnhancedIdle /\ PaceIdle /\ RaceIdle

FairSpecPaging == InitPaging /\ [][PagingNext]_vars /\ WF_vars(PagingNext)

\* one call of one sync stage, with the requests and delays it issues
PacingNext ==
    \/ mRuns + bRuns + vRuns = 0 /\ StartSyncPoliticians /\ UNCHANGED <<pace, unpaced>> /\ UNCHANGED <<polarityVars, billVars, voteVars, scoreVars, routeVars, confidenceVars, enhancedVars, raceVars>>
    \/ FetchMembersPage /\ (IF mPage = 0 THEN IssueFirst(<<"request">>) ELSE Issue(<<"request">>)) /\ UNCHANGED <<polarityVars, billVars, voteVars, scoreVars, routeVars, confidenceVars, enhancedVars, raceVars>>
    \/ ProcessMember /\ Issue(ProcessMemberEvents) /\ UNCHANGED <<polarityVars, billVars, voteVars, scoreVars, routeVars, confidenceVars, enhancedVars, raceVars>>
    \/ EndMembersPage /\ Issue(<<"delay">>) /\ UNCHANGED <<polarityVars, billVars, voteVars, scoreVars, routeVars, confidenceVars, enhancedVars, raceVars>>
    \/ mRuns + bRuns + vRuns = 0 /\ StartSyncBills /\ IssueFirst(<<"request">>) /\ UNCHANGED <<memberVars, polarityVars, voteVars, scoreVars, routeVars, confidenceVars, enhancedVars, raceVars>>
    \/ SyncBillsRecord /\ Issue(SyncBillsRecordEvents) /\ UNCHANGED <<memberVars, polarityVars, voteVars, scoreVars, routeVars, confidenceVars, enhancedVars, raceVars>>
    \/ EndSyncBills /\ UNCHANGED <<pace, unpaced>> /\ UNCHANGED <<memberVars, polarityVars, voteVars, scoreVars, routeVars, confidenceVars, enhancedVars, raceVars>>
    \/ mRuns + bRuns + vRuns = 0 /\ StartSyncVotingRecords /\ IssueFirst(<<"request">>) /\ UNCHANGED <<memberVars, polarityVars, voteVars, scoreVars, routeVars, confidenceVars, enhancedVars, raceVars>>
    \/ SyncVotingRecordsBill /\ (\E actions \in BOOLEAN : Issue(SyncVotingRecordsBillEvents(actions))) /\ UNCHANGED <<memberVars, polarityVars, voteVars, scoreVars, routeVars, confidenceVars, enhancedVars, raceVars>>
    \/ EndSyncVotingRecords /\ UNCHANGED <<pace, unpaced>> /\ UNCHANGED <<memberVars, polarityVars, voteVars, scoreVars, routeVars, confidenceVars, enhancedVars, raceVars>>
    \/ mRuns + bRuns + vRuns = 0 /\ StartSyncVotes /\ IssueFirst(<<"request">>) /\ UNCHANGED <<memberVars, polarityVars, billVars, scoreVars, routeVars, confidenceVars, enhancedVars, raceVars>>
    \/ SyncVote /\ Issue(SyncVoteEvents) /\ UNCHANGED <<memberVars, polarityVars, billVars, scoreVars, routeVars, confidenceVars, enhancedVars, raceVars>>
    \/ SyncMemberVote /\ Issue(SyncMemberVoteEvents) /\ UNCHANGED <<memberVars, polarityVars, billVars, scoreVars, routeVars, confidenceVars, enhancedVars, raceVars>>
    \/ EndSyncVotes /\ UNCHANGED <<pace, unpaced>> /\ UNCHANGED <<memberVars, polarityVars, billVars, scoreVars, routeVars, confidenceVars, enhancedVars, raceVars>>

InitPacing == MembersSynced /\ PolarityIdle /\ BillsSynced /\ VotesInit /\ ScoresInit /\ RoutesIdle /\ ConfidenceIdle /\ EnhancedIdle /\ PaceIdle /\ RaceIdle

SpecPacing == InitPacing /\ [][PacingNext]_vars

\* syncBills run, stopped inside an insert, and run again from the beginning
ReplayNext ==
    \/ StartSyncBills /\ UNCHANGED <<memberVars, polarityVars, voteVars, scoreVars, routeVars, confidenceVars, enhancedVars, paceVars, raceVars>>
    \/ SyncBillsRecord /\ UNCHANGED <<memberVars, polarityVars, voteVars, scoreVars, routeVars, confidenceVars, enhancedVars, paceVars, raceVars>>
    \/ InterruptSyncBills /\ UNCHANGED <<memberVars, polarityVars, voteVars, scoreVars, routeVars, confidenceVars, enhancedVars, paceVars, raceVars>>
    \/ EndSyncBills /\ UNCHANGED <<memberVars, polarityVars, voteVars, scoreVars, routeVars, confidenceVars, enhancedVars, paceVars, raceVars>>

InitReplay == MembersInit /\ PolarityIdle /\ BillsInit /\ VotesInit /\ ScoresInit /\ RoutesIdle /\ ConfidenceIdle /\ EnhancedIdle /\ PaceIdle /\ RaceIdle

SpecReplay == InitReplay /\ [][ReplayNext]_vars

\* two syncVotes calls, each syncing one vote with one member vote
RaceNext ==
    \/ \E i \in Instances : RaceSelectVote(i) /\ UNCHANGED <<memberVars, polarityVars, billVars, vPc, vChamber, vLeft, vMembersLeft, vCur, votesSynced, recordsSynced, vErrors, vRuns, vResult, vLast, scoreVars, routeVars, confidenceVars, enhancedVars, paceVars>>
    \/ \E i \in Instances : RaceWriteVote(i) /\ UNCHANGED <<memberVars, polarityVars, billVars, vPc, vChamber, vLeft, vMembersLeft, vCur, votesSynced, recordsSynced, vErrors, vRuns, vResult, vLast, scoreVars, routeVars, confidenceVars, enhancedVars, paceVars>>
    \/ \E i \in Instances : RaceSelectRecord(i) /\ UNCHANGED <<memberVars, polarityVars, billVars, vPc, vChamber, vLeft, vMembersLeft, vCur, votesSynced, recordsSynced, vErrors, vRuns, vResult, vLast, scoreVars, routeVars, confidenceVars, enhancedVars, paceVars>>
    \/ \E i \in Instances : RaceWriteRecord(i) /\ UNCHANGED <<memberVars, polarityVars, billVars, vPc, vChamber, vLeft, vMembersLeft, vCur, votesSynced, recordsSynced, vErrors, vRuns, vResult, vLast, scoreVars, routeVars, confidenceVars, enhancedVars, paceVars>>

InitRace == MembersSynced /\ PolarityIdle /\ BillsSynced /\ VotesInit /\ ScoresInit /\ RoutesIdle /\ ConfidenceIdle /\ EnhancedIdle /\ PaceIdle /\ RaceIdle

SpecRace == InitRace /\ [][RaceNext]_vars

(***************************************************************************)
(* C1: in the legislator sync, an insert of a legislator whose congress_id *)
(* is already stored leaves the stored rows, syncedCount and the errors    *)
(* list unchanged and is never logged as synced; and no congress_id is     *)
(* ever stored in more than one row, however often syncPoliticians runs.   *)
(***************************************************************************)
InsertAttempted(kind) ==
    kind \in {"Successfully synced", "Skipping duplicate",
              "Error inserting politician", "Error processing member"}

MemberStep == mPc = "members" /\ mPageLeft' = mPageLeft - 1

C1_DuplicateLegislatorSkipped ==
    /\ [](\A cid \in BioguideIds : Cardinality(PoliticianRows(cid)) <= 1)
    /\ [][(/\ MemberStep
           /\ InsertAttempted(mLog'.kind)
           /\ PoliticianRows(mLog'.id) # {})
          => (/\ politicians' = politicians
              /\ syncedCount' = syncedCount
              /\ mErrors' = mErrors
              /\ mLog'.kind # "Successfully synced")]_vars

\* the second syncPoliticians run meets a legislator stored by the first
C1_Witness ==
    /\ mRuns = 2
    /\ totalSynced = 0
    /\ syncedCount = 0
    /\ mLog.kind = "Skipping duplicate"
    /\ PoliticianRows(mLog.id) # {}

(***************************************************************************)
(* Bill ingestion properties.                                              *)
(***************************************************************************)
\* a step of an ingestor loop that reaches the bill table for a bill whose
\* congress_id is already stored
IngestExisting ==
    /\ bLeft' = bLeft - 1
    /\ bLast'.step \in {"update", "existing", "insert", "insert, tag lost",
                      "insert, topics unread"}
    /\ BillRows(bLast'.congress_id) # {}

RowsIn(table, cid) == {r \in table : r.congress_id = cid}

TopicsIn(table, tags, cid) ==
    {t \in TopicIds : <<cid, t>> \in tags} \cup UNION {r.topic_ids : r \in RowsIn(table, cid)}

\* C2 as stated: ingesting a bill whose external id is already stored, through
\* syncBills or through syncBill, leaves exactly one row for it with the
\* polarity score and the topic set it had, whatever text upstream returns.
C2_ReingestChangesNothing ==
    [][IngestExisting =>
         (/\ Cardinality(RowsIn(bills', bLast'.congress_id)) = 1
          /\ {r.progressive_score : r \in RowsIn(bills', bLast'.congress_id)}
               = {r.progressive_score : r \in BillRows(bLast'.congress_id)}
          /\ TopicsIn(bills', bill_topics', bLast'.congress_id) = TopicsOf(bLast'.congress_id))]_vars

\* C2, amended: ingesting a bill whose external id is already stored leaves
\* exactly one row for it and leaves its topic set as it was; through syncBill
\* the stored row does not change at all; through syncBills the row is either
\* as before (the update failed) or the billData of the upstream bill just
\* fetched, its polarity score computed anew from the new text.
C2_ReingestKeepsRowAndTopics ==
    [][IngestExisting =>
         (/\ Cardinality(RowsIn(bills', bLast'.congress_id)) = 1
          /\ TopicsIn(bills', bill_topics', bLast'.congress_id) = TopicsOf(bLast'.congress_id)
          /\ bill_topics' = bill_topics
          /\ bLast'.path = "syncBill" => bills' = bills
          /\ bLast'.path = "syncBills" =>
               \/ bills' = bills
               \/ \E bill \in UpstreamBills :
                    /\ billDataOf[bill].congress_id = bLast'.congress_id
                    /\ bills' = (bills \ BillRows(bLast'.congress_id))
                                  \cup {billDataOf[bill]})]_vars

\* a bill first stored with the post office text (no keyword, no topic) has
\* been updated by syncBills to the progressive text: new score, old topics
C2_Witness ==
    /\ bLast.path = "syncBills"
    /\ bLast.step = "update"
    /\ \E r \in BillRows(bLast.congress_id) :
         /\ r.summary = SummaryProgressive
         /\ r.progressive_score = 10
    /\ TopicsOf(bLast.congress_id) = {}

\* the keyword sums of the stored texts, tabulated
rowText(r) ==
    [title |-> r.title, summary |-> r.summary, policyArea |-> r.policy_area,
     subjects |-> r.subjects]

keywordSumOf ==
    [t \in PipelineTexts |->
        forEachMatch(progressiveKeywords, billContent(t), 1)
        - forEachMatch(conservativeKeywords, billContent(t), 1)]

vrKeywordSumOf ==
    [t \in {rowText(syncBillData(b)) : b \in UpstreamBills} |->
        2 * forEachMatch(vrConservativeKeywords, billText(t), 1)
        - 2 * forEachMatch(vrProgressiveKeywords, billText(t), 1)]

\* the row was written by syncBills (congress_id is the bill number alone)
FromSyncBills(r) == Len(r.congress_id) = 1

StoredBillIds == {r.congress_id : r \in VoteStageBills}

\* C3 as stated: after any sequence of syncVotes calls the store holds at
\* most one voting record for each (legislator, bill) pair.
C3_OneRecordPerLegislatorBill ==
    \A p \in BioguideIds, b \in StoredBillIds : Cardinality(RecordsOf(p, b)) <= 1

\* a member vote is iterated without an exception for a legislator and a bill
\* that already have a voting record
RedeliveredMemberVote ==
    /\ vPc = "members"
    /\ vMembersLeft' = vMembersLeft - 1
    /\ vLast'.step \in {"existing", "inserted"}
    /\ RecordsOf(vLast'.politician, vLast'.bill_id) # {}

\* C4 as stated: when a vote sync delivers a member vote for a (legislator,
\* bill) pair that already has a voting record, the records of the pair hold
\* the delivered vote and vote date afterwards.
C4_LaterVoteOverwrites ==
    [][RedeliveredMemberVote =>
         \A r \in {x \in voting_records' : /\ x.politician_id = vLast'.politician
                                           /\ x.bill_id = vLast'.bill_id} :
            /\ r.vote = vLast'.vote
            /\ r.vote_date = vLast'.vote_date]_vars

(***************************************************************************)
(* Scoring properties.                                                     *)
(***************************************************************************)
\* the bill carries the topic, in topic_ids or in bill_topics
Tagged(b, topicId) ==
    topicId \in b.topic_ids \/ <<b.congress_id, topicId>> \in bill_topics

\* the qualifying votes of a legislator on a topic: Yea or Nay on a bill
\* tagged with the topic whose polarity is not null
Qualifying(records, politicianId, topicId) ==
    {v \in records :
        /\ v.politician_id = politicianId
        /\ v.vote \in {"Yea", "Nay"}
        /\ Tagged(BillOf(v), topicId)
        /\ BillOf(v).progressive_score # NULL}

StoredScore(politicianId, topicId) ==
    {r \in political_scores : r.politician_id = politicianId /\ r.topic_id = topicId}

\* the scoring loop has just written the score of the pair sLast names
PairStored == sLast.step = "stored" /\ sLast.engine # "aggregate"

RECURSIVE ContributionSum(_, _)
ContributionSum(votes, p) ==
    IF p > 10
    THEN 0
    ELSE p * (Cardinality({v \in votes : v.vote = "Yea"
                                         /\ BillOf(v).progressive_score = p})
              - Cardinality({v \in votes : v.vote = "Nay"
                                           /\ BillOf(v).progressive_score = p}))
         + ContributionSum(votes, p + 1)

ScenarioL1 == voting_records = {StoredRecord("A001", "1", "Yea"),
                                StoredRecord("A001", "2", "Nay")}
ScenarioL2 == voting_records = {StoredRecord("A002", "1", "Nay"),
                                StoredRecord("A002", "2", "Present")}

\* the healthcare score calculateRealPoliticalScores has just stored
RealHealthcareStored(politicianId) ==
    /\ PairStored
    /\ sLast.engine = "calculate_politician_score"
    /\ sLast.politician = politicianId
    /\ sLast.topic = HealthcareId

\* C7 as stated: in the scenario the scoring stage of fullSync stores score
\* 0.7 with vote_count 2 for L1 and score -0.8 with vote_count 1 for L2.
C7_ScenarioMeanScores ==
    /\ (RealHealthcareStored("A001") /\ ScenarioL1)
         => \A r \in StoredScore("A001", HealthcareId) :
              r.score = <<7, 1>> /\ r.vote_count = 2
    /\ (RealHealthcareStored("A002") /\ ScenarioL2)
         => \A r \in StoredScore("A002", HealthcareId) :
              r.score = <<0 - 8, 1>> /\ r.vote_count = 1

\* C7, amended: in the scenario the scoring stage of fullSync stores score
\* 1.0 with vote_count 2 for L1 (both votes side with the progressive pole)
\* and score -1.0 with vote_count 1 for L2 (Present excluded): the score is
\* 2 * (share of Yea/Nay votes that are Yea on a positive bill or Nay on a
\* negative one) - 1, not the mean of the signed polarities.
C7_ScenarioShareScores ==
    /\ (RealHealthcareStored("A001") /\ ScenarioL1)
         => StoredScore("A001", HealthcareId)
              = {[politician_id |-> "A001", topic_id |-> HealthcareId,
                  score |-> <<10, 1>>, vote_count |-> 2, confidence |-> 4]}
    /\ (RealHealthcareStored("A002") /\ ScenarioL2)
         => StoredScore("A002", HealthcareId)
              = {[politician_id |-> "A002", topic_id |-> HealthcareId,
                  score |-> <<0 - 10, 1>>, vote_count |-> 1, confidence |-> 1]}

\* L2's healthcare score of the scenario has been stored
C7_Witness ==
    /\ RealHealthcareStored("A002")
    /\ ScenarioL2
    /\ \E r \in StoredScore("A002", HealthcareId) : r.vote_count = 1

\* a vote that counts for no topic: Present, Not Voting, or on a bill without
\* polarity
NeutralVote(v) ==
    \/ v.vote \in {"Present", "Not Voting"}
    \/ BillOf(v).progressive_score = NULL

WithoutNeutralVotes == {v \in voting_records : ~NeutralVote(v)}

Range(f) == {f[i] : i \in DOMAIN f}

\* the keywords of a list present in the content
Found(keywords, content) == {k \in Range(keywords) : includes(content, k)}

Clamp(x) == Max(0 - 10, Min(10, x))

\* the bill with its subjects in reverse order
ReverseSubjects(bill) ==
    [bill EXCEPT !.subjects =
        [i \in 1..Len(bill.subjects) |-> bill.subjects[Len(bill.subjects) + 1 - i]]]

\* C9 as stated: both scorers return clamp(0.1 * #found of one pole - 0.1 *
\* #found of the other), each keyword counted once, 0 when none is found.
C9_TenthPerKeyword ==
    pCalls >= 1 =>
        /\ pScore = Clamp(Cardinality(Found(progressiveKeywords, billContent(pBill)))
                          - Cardinality(Found(conservativeKeywords, billContent(pBill))))
        /\ pScoreVR = Clamp(Cardinality(Found(vrConservativeKeywords, billText(pBill)))
                            - Cardinality(Found(vrProgressiveKeywords, billText(pBill))))

\* C9, amended: calculateBillProgressiveScore returns clamp(0.1 * #progressive
\* found - 0.1 * #conservative found) and calculateProgressiveScore returns
\* clamp(0.2 * #conservative found - 0.2 * #progressive found), each keyword
\* counted once however often it occurs; both return 0 when no keyword is
\* found; the result is the same for the subjects in another order and for a
\* repeated call.
C9_ScoreIsClampedKeywordSum ==
    pCalls >= 1 =>
        LET content == billContent(pBill)
            text    == billText(pBill)
        IN  /\ pScore = Clamp(Cardinality(Found(progressiveKeywords, content))
                              - Cardinality(Found(conservativeKeywords, content)))
            /\ pScoreVR = Clamp(2 * Cardinality(Found(vrConservativeKeywords, text))
                                - 2 * Cardinality(Found(vrProgressiveKeywords, text)))
            /\ (Found(progressiveKeywords, content) = {}
                /\ Found(conservativeKeywords, content) = {}) => pScore = 0
            /\ (Found(vrProgressiveKeywords, text) = {}
                /\ Found(vrConservativeKeywords, text) = {}) => pScoreVR = 0
            /\ calculateBillProgressiveScore(ReverseSubjects(pBill)) = pScore
            /\ calculateProgressiveScore(ReverseSubjects(pBill)) = pScoreVR

\* a bill scored twice whose text has keywords of both poles, one of them in
\* two parts of the text, two different subjects, and a sum inside the range
C9_Witness ==
    /\ pCalls = 2
    /\ Found(progressiveKeywords, billContent(pBill)) # {}
    /\ Found(conservativeKeywords, billContent(pBill)) # {}
    /\ \E k \in Range(progressiveKeywords) :
         Cardinality({j \in DOMAIN billContent(pBill) :
                        k \in Occurring(billContent(pBill)[j])}) >= 2
    /\ Len(pBill.subjects) = 2
    /\ pBill.subjects[1] # pBill.subjects[2]
    /\ pScore \in 1..9
    /\ pScoreVR # 0
    /\ pScoreVR \in (0 - 9)..9


(***************************************************************************)
(* Topic classification properties.                                        *)
(***************************************************************************)
\* a step of an ingestor loop that stores a bill whose congress_id was not
\* stored before
FirstIngest ==
    /\ bLeft' = bLeft - 1
    /\ bLast'.step \in {"insert", "insert, tag lost", "insert, topics unread"}
    /\ BillRows(bLast'.congress_id) = {}
    /\ RowsIn(bills', bLast'.congress_id) # {}

\* the upstream text a stored row was written from
IngestedText(r) ==
    CHOOSE t \in PipelineTexts : t.title = r.title /\ t.summary = r.summary

\* the topics of a keyword table that have a keyword occurring in a blob
MatchingTopics(blob, table) ==
    {table[j].topicId : j \in
        {i \in DOMAIN table :
            \E kw \in Range(table[i].keywords), part \in Range(blob) :
                kw \in Occurring(part)}}

\* the blob of title, summary, policy area and subjects, and the blob of
\* title and summary, of each upstream text
fullBlobTopicsOf ==
    [t \in PipelineTexts |-> MatchingTopics(billContent(t), topicMappings)]
shortBlobTopicsOf ==
    [t \in PipelineTexts |-> MatchingTopics(billText(t), topicsTable)]

RunDone(route) == rRoute = route /\ rPc = "done"

\* the stages of the run that returned at least one error
StagesWithErrors == {i \in DOMAIN rStages : rStages[i].result.errors # <<>>}

\* the stages of the run that returned success = false
FailedStages == {i \in DOMAIN rStages : ~rStages[i].result.success}

StageNames == [i \in DOMAIN rStages |-> rStages[i].stage]

\* the entries of a list of strings
Entries(list) == {list[i] : i \in DOMAIN list}

\* C13: in fullSync no stage failure ends the run: whatever the stages
\* returned (a fatal bill-stage failure included), vote sync has run for both
\* chambers and, when enabled, scoring has run by the time fullSync returns,
\* and every error a stage returned is in the returned error list.  POST
\* /full-sync likewise runs its three stages whatever they return.
C13_LaterStagesStillRun ==
    /\ RunDone("/voting-data") =>
          /\ StageNames = <<"syncBills", "syncVotes house", "syncVotes senate">>
                            \o (IF calculateScores
                                THEN <<"calculateRealPoliticalScores">> ELSE <<>>)
          /\ \A i \in DOMAIN rStages :
                Entries(rStages[i].result.errors) \subseteq Entries(rResponse.errors)
    /\ RunDone("/full-sync") =>
          /\ StageNames = <<"syncPoliticians", "syncVotingRecords",
                            "calculatePoliticalScores">>
          /\ FailedStages # {} => rResponse.errors # <<>>

\* the bill listing was unreachable, and fullSync still synced a vote of each
\* chamber and ran the scoring
C13_Witness ==
    /\ RunDone("/voting-data")
    /\ calculateScores
    /\ rStages[1].result.errors = <<"Fatal error in bill sync">>
    /\ rStages[2].result.votesSynced > 0
    /\ rStages[3].result.votesSynced > 0
    /\ rStages[4].result.count > 0
    /\ "Fatal error in bill sync" \in Entries(rResponse.errors)

\* what a stage of either orchestrator syncs
StageKind(stage) ==
    IF stage = "syncPoliticians" THEN "legislators"
    ELSE IF stage \in {"syncBills", "syncVotingRecords"} THEN "bills"
    ELSE IF stage = "syncVotes house" THEN "votes house"
    ELSE IF stage = "syncVotes senate" THEN "votes senate"
    ELSE "scores"

StageKinds == [i \in DOMAIN rStages |-> StageKind(rStages[i].stage)]

IsPrefix(s, t) == Len(s) <= Len(t) /\ s = SubSeq(t, 1, Len(s))

\* the stages whose code is being executed
RunningStages ==
    (IF mPc # "idle" THEN {"syncPoliticians"} ELSE {})
    \cup (IF bPc # "idle" THEN {bPc} ELSE {})
    \cup (IF vPc # "idle" THEN {"syncVotes " \o vChamber} ELSE {})
    \cup (IF sPc # "idle" THEN {sPc} ELSE {})

\* C14 as stated: a full pipeline run (fullSync behind POST /voting-data with
\* scoring enabled, or POST /full-sync) has run legislators, bills, votes of
\* the House, votes of the Senate and scores, in that order, when it returns.
C14_LegislatorsBillsVotesScores ==
    (RunDone("/voting-data") /\ calculateScores) \/ RunDone("/full-sync")
        => StageKinds = <<"legislators", "bills", "votes house", "votes senate",
                          "scores">>

\* C14 amended: fullSync runs bills, then votes of the House, then votes of
\* the Senate, then (when enabled) scores, and no legislator stage; POST
\* /full-sync runs legislators, then syncVotingRecords (bills with the votes
\* recorded on them, not per chamber), then scores.  In both, the stages that
\* have returned are at any time a prefix of that order, the run returns
\* only after the last one, and the only stage executing is the one awaited.
C14_StagesInOrder ==
    /\ RunningStages \subseteq {rPc}
    /\ rRoute = "/voting-data" =>
          LET order == <<"bills", "votes house", "votes senate">>
                         \o (IF calculateScores THEN <<"scores">> ELSE <<>>)
          IN  /\ IsPrefix(StageKinds, order)
              /\ rPc = "done" => StageKinds = order
    /\ rRoute = "/full-sync" =>
          LET order == <<"legislators", "bills", "scores">>
          IN  /\ IsPrefix(StageKinds, order)
              /\ rPc = "done" => StageKinds = order

\* fullSync has returned after syncing a bill, a House vote and a Senate
\* vote and scoring a legislator, one after the other
C14_Witness ==
    /\ RunDone("/voting-data")
    /\ summary.bills > 0
    /\ summary.houseVotes > 0
    /\ summary.senateVotes > 0
    /\ summary.politiciansScored > 0
    /\ StageKinds = <<"bills", "votes house", "votes senate", "scores">>

RECURSIVE StageErrorsFrom(_)
\* the error lists of the stages i.. of the run, one after the other
StageErrorsFrom(i) ==
    IF i > Len(rStages) THEN <<>>
    ELSE rStages[i].result.errors \o StageErrorsFrom(i + 1)

\* the message POST /full-sync has for a stage
FailureMessage(stage) ==
    IF stage = "syncPoliticians" THEN "Politicians sync failed"
    ELSE IF stage = "syncVotingRecords" THEN "Voting records sync failed"
    ELSE "Score calculation failed"

RECURSIVE FailureMessagesFrom(_)
\* the messages of the failed stages i.. of the run, in stage order
FailureMessagesFrom(i) ==
    IF i > Len(rStages) THEN <<>>
    ELSE (IF rStages[i].result.success THEN <<>>
          ELSE <<FailureMessage(rStages[i].stage)>>) \o FailureMessagesFrom(i + 1)

\* C15 as stated: the error list an orchestrator (fullSync behind POST
\* /voting-data, POST /full-sync) returns is the concatenation, in stage
\* order, of the error lists its stages returned.
C15_ErrorsAreStageErrors ==
    RunDone("/voting-data") \/ RunDone("/full-sync")
        => rResponse.errors = StageErrorsFrom(1)

\* C15 amended: the error list fullSync returns is the concatenation, in
\* stage order, of the error lists its stages returned.  The error list of
\* POST /full-sync holds instead one summary message for each stage that
\* returned success = false, in stage order; the stages' own error lists
\* are returned unchanged inside the stage results of the response.
C15_ErrorsPerOrchestrator ==
    /\ RunDone("/voting-data") => rResponse.errors = StageErrorsFrom(1)
    /\ RunDone("/full-sync") => rResponse.errors = FailureMessagesFrom(1)

\* fullSync has returned the errors of two stages, the bill stage's first
C15_Witness ==
    /\ RunDone("/voting-data")
    /\ rStages[1].result.errors # <<>>
    /\ rStages[3].result.errors # <<>>
    /\ rStages[1].result.errors # rStages[3].result.errors
    /\ Len(rResponse.errors) >= 2
    /\ rResponse.errors[1] = rStages[1].result.errors[1]

(***************************************************************************)
(* HTTP status properties.                                                 *)
(***************************************************************************)
\* the response reports no work done
AllCountsZero == \A i \in DOMAIN rResponse.counts : rResponse.counts[i] = 0

\* C16: the status of the response of a POST route follows from the result:
\* success = true gives 200; success = false with a count above 0 gives 207;
\* success = false with all counts 0 gives a 5xx status.
C16_StatusFollowsResult ==
    rPc = "done" =>
        /\ rResponse.success => rResponse.status = 200
        /\ ~rResponse.success /\ ~AllCountsZero => rResponse.status = 207
        /\ ~rResponse.success /\ AllCountsZero => rResponse.status >= 500

(***************************************************************************)
(* Storage failure properties.                                             *)
(***************************************************************************)
\* an iteration of syncBills tried to insert a bill of which no row is
\* stored, and the insert stored nothing: the write failed, and not on a
\* uniqueness conflict
FailedBillInsert ==
    /\ bPc = "syncBills"
    /\ bLeft' = bLeft - 1
    /\ bLast'.step = "insert"
    /\ RowsIn(bills, bLast'.congress_id) = {}
    /\ RowsIn(bills', bLast'.congress_id) = {}

\* C17: when the storage write for a record fails with an error other than a
\* uniqueness conflict, the stage's errors list gains an entry for the
\* record and the stage's count does not include it (here: the bill insert
\* of syncBills).
C17_FailedWriteIsRecorded ==
    [][FailedBillInsert =>
         /\ Len(bErrors') = Len(bErrors) + 1
         /\ billsSynced' = billsSynced]_vars

(***************************************************************************)
(* Confidence properties.  A confidence c is kept as k = 400 * c^2, so      *)
(* c = 1 is k = 400, c = sqrt(v)/10 is k = 4v and c = v/20 is k = v^2.      *)
(***************************************************************************)
\* a scorer has returned the confidence of the pair
ConfidenceComputed == cConfidence # NULL

\* the confidence never goes down when the pair gains a vote
ConfidenceNeverFalls ==
    ConfidenceComputed /\ cConfidence' # NULL => cConfidence' >= cConfidence

\* C18 as stated: every scorer returns confidence = min(1, sqrt(vote_count) /
\* 10): in [0, 1], below 1 for vote_count < 100, 1 from 100 on, and never
\* falling as vote_count grows.
C18_SqrtConfidence ==
    /\ [](ConfidenceComputed =>
            /\ cConfidence = (IF 4 * cVotes < 400 THEN 4 * cVotes ELSE 400)
            /\ cConfidence >= 0 /\ cConfidence <= 400
            /\ cVotes < 100 => cConfidence < 400
            /\ cVotes >= 100 => cConfidence = 400)
    /\ [][ConfidenceNeverFalls]_vars

\* C18 amended: calculateTopicScore returns min(1, sqrt(vote_count) / 10)
\* (below 1 for vote_count < 100, 1 from 100 on); the SQL scorer
\* calculate_politician_score returns min(1, vote_count / 20) (below 1 for
\* vote_count < 20, 1 from 20 on).  Both are in [0, 1] and never fall as
\* vote_count grows.
C18_ConfidencePerScorer ==
    /\ [](ConfidenceComputed =>
            /\ cConfidence >= 0 /\ cConfidence <= 400
            /\ cEngine = "calculateTopicScore" =>
                  /\ cConfidence = (IF 4 * cVotes < 400 THEN 4 * cVotes ELSE 400)
                  /\ cVotes < 100 => cConfidence < 400
                  /\ cVotes >= 100 => cConfidence = 400
            /\ cEngine = "calculate_politician_score" =>
                  /\ cConfidence = (IF cVotes < 20 THEN cVotes * cVotes ELSE 400)
                  /\ cVotes < 20 => cConfidence < 400
                  /\ cVotes >= 20 => cConfidence = 400)
    /\ [][ConfidenceNeverFalls]_vars

\* the SQL scorer has returned confidence 1 for 20 votes after returning
\* less for fewer
C18_Witness ==
    /\ cEngine = "calculate_politician_score"
    /\ cVotes = 20
    /\ cConfidence = 400

(***************************************************************************)
(* Aggregate score properties.                                             *)
(***************************************************************************)
AggregateRows(politicianId) ==
    {r \in aggregate_scores : r.politician_id = politicianId}

\* a scoring run has returned
ScoringReturned == sPc = "idle" /\ sResult # NoScoreResult

\* overall is the arithmetic mean of the scores of rows (tenths, as <<n, d>>)
IsMeanOf(overall, rows) ==
    LET sum == sumScores(rows)
    IN  overall[1] * sum[2] * Cardinality(rows) = sum[1] * overall[2]

InUnitRange(score) ==
    ~FracLess(score, <<0 - 10, 1>>) /\ ~FracLess(<<10, 1>>, score)

PhilosophyRank(label) ==
    IF label = "Very Conservative" THEN 1
    ELSE IF label = "Conservative" THEN 2
    ELSE IF label = "Moderate" THEN 3
    ELSE IF label = "Liberal" THEN 4
    ELSE 5

\* scores to compare an aggregate with, in tenths
ProbeScores == {<<n, 1>> : n \in {0 - 10, 0 - 7, 0 - 6, 0 - 4, 0 - 2, 0, 2, 4, 6, 10}}

\* the legislator of the store voted, and only Yea on bills of positive
\* polarity
AllYeaOnProgressiveBills ==
    /\ voting_records # {}
    /\ \A rec \in voting_records :
          rec.vote = "Yea" /\ BillOf(rec).progressive_score > 0

\* C20: the label calculateRealPoliticalScores stores follows the
\* orientation of the score: a lower score never has a more progressive
\* label than the aggregate stored, a higher one never a more conservative
\* label, and a legislator who voted only Yea on progressive bills is
\* labelled at the progressive end (Liberal or Progressive).
C20_LabelFollowsOrientation ==
    sLast.engine = "aggregate" /\ sLast.step = "stored" =>
        \A r \in AggregateRows(sLast.politician) :
            /\ PhilosophyRank(r.philosophy)
                  = PhilosophyRank(philosophyOf(r.overall_score))
            /\ \A probe \in ProbeScores :
                  /\ FracLess(probe, r.overall_score) =>
                        PhilosophyRank(philosophyOf(probe)) <= PhilosophyRank(r.philosophy)
                  /\ FracLess(r.overall_score, probe) =>
                        PhilosophyRank(philosophyOf(probe)) >= PhilosophyRank(r.philosophy)
            /\ AllYeaOnProgressiveBills /\ sPipeline = "real" =>
                  r.philosophy \in {"Liberal", "Progressive"}

(***************************************************************************)
(* Paging of the legislator listings.                                      *)
(***************************************************************************)
\* syncMembersFromChamber: the first request of a chamber is for page 0; a
\* page shorter than the limit clears hasMore, which stays cleared while the
\* page is processed; the next request of the chamber is made only with
\* hasMore set and every record processed, and is for the next page; the
\* call ends only with every record of the page processed
MembersPaging ==
    /\ (mPc' = "fetch" /\ (mPc = "idle" \/ mChamber' # mChamber)) => mPage' = 0
    /\ (mPc = "fetch" /\ mPc' = "members")
          => /\ mPageLeft' <= PageLimit
             /\ mPage' = mPage
             /\ mPageLeft' < PageLimit => ~mHasMore'
    /\ (mPc = "members" /\ mPc' = "members") => (mHasMore' = mHasMore /\ mPage' = mPage)
    /\ (mPc = "members" /\ mPc' = "fetch" /\ mChamber' = mChamber)
          => (mHasMore /\ mPageLeft = 0 /\ mPage' = mPage + 1)
    /\ (mPc # "idle" /\ (mPc' = "idle" \/ mChamber' # mChamber)) => mPageLeft = 0

\* syncChamberMembers: the same, with the size of the upstream page kept in
\* eRaw; the loop also stops after a full page when the chamber filter took
\* a record out of it or the upstream names no next page
ChamberPaging ==
    /\ (ePc' = "fetch" /\ (ePc = "idle" \/ eChamber' # eChamber)) => eOffset' = 0
    /\ (ePc = "fetch" /\ ePc' = "members")
          => (eFetched' <= eRaw' /\ eLeft' = eFetched' /\ eOffset' = eOffset)
    /\ (ePc = "members" /\ ePc' = "members") => (eRaw' = eRaw /\ eOffset' = eOffset)
    /\ (ePc = "members" /\ ePc' = "fetch" /\ eChamber' = eChamber)
          => (eRaw = PageLimit /\ eLeft = 0 /\ eOffset' = eOffset + PageLimit)
    /\ (ePc # "idle" /\ (ePc' = "idle" \/ eChamber' # eChamber)) => eLeft = 0

TermChamberOf(chamber) ==
    IF chamber = "HOUSE" THEN "House of Representatives" ELSE "Senate"

\* C22: a row is inserted by syncMembersFromChamber(c) only for a record
\* whose term chamber is chamber c, and with chamber c; a record whose term
\* chamber is anything else is skipped: nothing stored, no error counted.
C22_StoredChamberIsTermChamber ==
    [][(mPc = "members" /\ mPageLeft' < mPageLeft)
          => /\ \A r \in politicians' \ politicians :
                    /\ r.chamber = expectedChamber(mChamber)
                    /\ mLog'.term = TermChamberOf(mChamber)
             /\ mLog'.term # TermChamberOf(mChamber)
                    => (politicians' = politicians /\ errorCount' = errorCount)]_vars

(***************************************************************************)
(* Vote events without a bill, member votes without a legislator.          *)
(***************************************************************************)
\* the congressional_votes rows of the vote event with this id
VoteEventRows(rows, voteId) == {r \in rows : VoteId(r) = voteId}

\* syncVotes has just written the congressional_votes row of a vote event
\* (no detail or write failure)
VoteEventWritten ==
    /\ vPc = "votes"
    /\ vLeft > 0
    /\ vCur'.stored \in {"inserted", "updated"}

\* one member vote has just been skipped by the member loop
MemberVoteSkipped ==
    /\ vPc = "members"
    /\ vMembersLeft' < vMembersLeft
    /\ vLast'.step = "skipped"

\* C23: a vote event that names no bill, or a bill that is not found in the
\* store, is stored as exactly one congressional_votes row with a null
\* bill_id and gets no voting record; a member vote whose legislator is not
\* found is skipped with no record and no error, and the loop goes on with
\* the next member vote, or after the last one with the next vote event.
C23_VoteWithoutBillIsKept ==
    [][/\ (VoteEventWritten /\ vCur'.billId = NoBill)
            => /\ Cardinality(VoteEventRows(congressional_votes',
                                            vCur'.congressionalVoteId)) = 1
               /\ \A r \in VoteEventRows(congressional_votes',
                                         vCur'.congressionalVoteId) :
                      r.bill_id = NoBill
               /\ voting_records' = voting_records
       /\ (vPc = "members" /\ vCur.billId = NoBill)
            => (voting_records' = voting_records /\ recordsSynced' = recordsSynced)
       /\ MemberVoteSkipped
            => /\ voting_records' = voting_records
               /\ vErrors' = vErrors
               /\ vMembersLeft' = vMembersLeft - 1
               /\ vPc' = (IF vMembersLeft' > 0 THEN "members" ELSE "votes")
               /\ vLeft' = (IF vMembersLeft' > 0 THEN vLeft ELSE vLeft - 1)]_vars

\* a vote event without bill is stored with a null bill_id; its first
\* member vote was skipped and the loop is at the second
C23_Witness_SkippedThenNext ==
    /\ vPc = "members"
    /\ vMembersLeft = 1
    /\ vLast.step = "skipped"
    /\ vCur.billId = NoBill
    /\ vCur.stored = "inserted"
    /\ \E r \in congressional_votes :
          VoteId(r) = vCur.congressionalVoteId /\ r.bill_id = NoBill

(***************************************************************************)
(* Order of the calls made for a bill that is already stored.              *)
(***************************************************************************)
\* an ingestor iteration whose existence check has found the bill
FoundExisting ==
    /\ bLeft' = bLeft - 1
    /\ bLast'.step \in {"update", "existing"}
    /\ BillRows(bLast'.congress_id) # {}

\* the calls of the iteration that came before its existence check
BeforeSelect(calls) ==
    {calls[i] : i \in {j \in 1..Len(calls) : \A k \in 1..j : calls[k] # "select"}}

\* the calls of the iteration, as a set
Called(calls) == {calls[i] : i \in 1..Len(calls)}

\* C24 as stated: for a bill already stored the existence check is the first
\* call of the iteration, and no detail fetch, polarity or topic computation
\* or write to the bill row is made.
C24_ExistenceCheckComesFirst ==
    [][FoundExisting =>
         /\ bLast'.calls = <<"select">>
         /\ bills' = bills
         /\ bill_topics' = bill_topics]_vars

\* C24, amended: for a bill that the existence check finds in the store,
\* both ingestors have fetched its detail before the check; syncBill then
\* computes nothing and writes nothing; syncBills has computed the polarity
\* before the check and afterwards updates the stored row, which stays the
\* only row of the bill; neither computes topics or writes a topic tag.
C24_DetailFirstThenCheck ==
    [][FoundExisting =>
         /\ "detail" \in BeforeSelect(bLast'.calls)
         /\ "topics" \notin Called(bLast'.calls)
         /\ "insert" \notin Called(bLast'.calls)
         /\ bill_topics' = bill_topics
         /\ Cardinality(RowsIn(bills', bLast'.congress_id)) = 1
         /\ bLast'.path = "syncBill" =>
              /\ bLast'.calls = <<"detail", "select">>
              /\ bills' = bills
         /\ bLast'.path = "syncBills" =>
              /\ "polarity" \in BeforeSelect(bLast'.calls)
              /\ "update" \in Called(bLast'.calls) \ BeforeSelect(bLast'.calls)]_vars

\* syncBill has found a stored bill and returned its id
C24_Witness_SyncBillFoundExisting ==
    /\ bLast.path = "syncBill"
    /\ bLast.step = "existing"
    /\ bLast.calls = <<"detail", "select">>
    /\ BillRows(bLast.congress_id) # {}
    /\ totalBills = 1

(***************************************************************************)
(* A scoring run over a store that already holds topic scores.             *)
(***************************************************************************)
\* the row the scorer of the store's pipeline computes for the pair from the
\* voting records now stored
FreshScore(politicianId, topicId) ==
    IF sPipeline = "routes"
    THEN calculateTopicScore(politicianId, topicId)
    ELSE calculate_politician_score(politicianId, topicId)

\* a scoring call has gone through its loops and returned
ScoringLoopReturned == ScoringReturned /\ sLast # NoPair

\* C25: after a scoring run that went through its loops, every pair of a
\* stored legislator and a topic has a topic score row, and it is the row
\* the scorer computes from the voting records now stored.
C25_EveryPairFreshAfterRun ==
    ScoringLoopReturned =>
        \A r \in politicians, t \in {scoringTopics[i] : i \in DOMAIN scoringTopics} :
            StoredScore(r.congress_id, t) = {FreshScore(r.congress_id, t)}

(***************************************************************************)
(* Pacing of the requests to the external API.                             *)
(***************************************************************************)
\* C26: in a sync stage no two requests to the external API follow each
\* other without a delay between them, on any path.
C26_DelayBetweenRequests == ~unpaced

(***************************************************************************)
(* A stage whose external API cannot be reached.                           *)
(***************************************************************************)
\* C27: a syncAllCurrentMembers call during which the external API never
\* answered returns success = false, zero counts and a non-empty errors
\* list, and leaves every legislator row as it was.
C27_UnreachableApiFailsStage ==
    [][(ePc # "idle" /\ ePc' = "idle" /\ ~eApiUp)
          => /\ ~eResult'.success
             /\ eResult'.totalMembers = 0
             /\ eResult'.errors # <<>>
             /\ ePoliticians' = ePoliticians]_vars

(***************************************************************************)
(* Replaying an interrupted bill sync.                                     *)
(***************************************************************************)
\* the topics that associateBillWithTopics gives the text a row was written from
TopicsOfRow(r) ==
    associateBillWithTopics([title |-> r.title, summary |-> r.summary,
                             policyArea |-> r.policy_area, subjects |-> r.subjects])

\* the run after an interrupted one ingests the interrupted bill again, from
\* the same upstream data, and its write goes through
ReplayOfInterrupted ==
    /\ bLast.step = "interrupted"
    /\ bLast'.step = "update"
    /\ bLast'.congress_id = bLast.congress_id
    /\ bills' = bills

\* C28: a syncBills run stopped after a storage write and started again from
\* the beginning with the same upstream data leaves the bill with the row and
\* the bill-topic rows an uninterrupted run gives it.
C28_InterruptedRunReplays ==
    [][ReplayOfInterrupted
          => \A r \in RowsIn(bills', bLast'.congress_id) :
                {t \in TopicIds : <<r.congress_id, t>> \in bill_topics'} = TopicsOfRow(r)]_vars

(***************************************************************************)
(* Duplicate rows: two instances against one instance.                     *)
(***************************************************************************)
\* two voting_records rows under one (politician, bill, vote event) key
DuplicateRecord ==
    \E r \in voting_records :
        Cardinality(SelectVotingRecord(r.politician_id, r.bill_id,
                                       r.congressional_vote_id)) > 1

\* two rows of one table under the key its existence check selects by
DuplicateRow ==
    \/ DuplicateRecord
    \/ \E r \in congressional_votes : Cardinality(VoteRows(r)) > 1
    \/ \E r \in bills : Cardinality(SelectBill(r.congress_id, r.congress)) > 1

\* both instances passed the existence check of one key and both inserted,
\* or one of them failed on the row the other had inserted
RaceLost ==
    \/ DuplicateRecord /\ \A i \in Instances : iPc[i] = "done" /\ ~iFound[i]
    \/ \E i \in Instances : iPc[i] = "failed"

\* C29 (the part about one instance): while a single syncVotes instance
\* runs alone, no key of bills, congressional_votes or voting_records ever
\* has two rows.
C29_NoDuplicateWhenAlone == ~DuplicateRow

(***************************************************************************)
(* The identity of a stored bill.                                          *)
(***************************************************************************)
\* congress, bill type and number of a stored row
RowComposite(r) == <<r.congress, r.bill_type, r.congress_id[Len(r.congress_id)]>>

\* C30: a stored bill is never overwritten by a bill of another congress,
\* type or number: every composite of congress, bill type and number that
\* has a row keeps a row, whatever bill is ingested next.
C30_BillKeptUnderItsComposite ==
    [][\A r \in bills : \E kept \in bills' : RowComposite(kept) = RowComposite(r)]_vars

====
